---- MODULE Spec2Model ----
(***************************************************************************)
(* Model of the form controller in src/main.js (current revision, lines    *)
(* 656-1527): lookup cache, query gateway, the two lookup channels, the    *)
(* selection resolver and the invalidation tracker.                        *)
(*                                                                         *)
(* Texts are sequences of one-character strings, so that trim(),           *)
(* toLowerCase() and includes() are computed rather than assumed.          *)
(***************************************************************************)
EXTENDS Integers, Sequences, FiniteSets, TLC

Null == "null"

(***************************************************************************)
(* Bounds of the model.                                                    *)
(***************************************************************************)
\* largest cache capacity explored besides the shipped one
MaxCapacity == 2
\* number of network requests issued in one behaviour
MaxRequests == 2

\* longest option list a select is given in a direct call of the matcher
MaxOptions == 3

(***************************************************************************)
(* Text helpers: String.prototype.trim / toLowerCase / includes.           *)
(***************************************************************************)
LowerOf ==
    ("A" :> "a") @@ ("B" :> "b") @@ ("C" :> "c") @@ ("D" :> "d") @@
    ("E" :> "e") @@ ("F" :> "f") @@ ("G" :> "g") @@ ("H" :> "h") @@
    ("I" :> "i") @@ ("J" :> "j") @@ ("K" :> "k") @@ ("L" :> "l") @@
    ("M" :> "m") @@ ("N" :> "n") @@ ("O" :> "o") @@ ("P" :> "p") @@
    ("Q" :> "q") @@ ("R" :> "r") @@ ("S" :> "s") @@ ("T" :> "t") @@
    ("U" :> "u") @@ ("V" :> "v") @@ ("W" :> "w") @@ ("X" :> "x") @@
    ("Y" :> "y") @@ ("Z" :> "z")

ToLowerChar(c) == IF c \in DOMAIN LowerOf THEN LowerOf[c] ELSE c

ToLowerCase(s) == [i \in 1..Len(s) |-> ToLowerChar(s[i])]

RECURSIVE TrimStart(_)
TrimStart(s) ==
    IF s # <<>> /\ Head(s) = " " THEN TrimStart(Tail(s)) ELSE s

RECURSIVE TrimEnd(_)
TrimEnd(s) ==
    IF s # <<>> /\ s[Len(s)] = " " THEN TrimEnd(SubSeq(s, 1, Len(s) - 1)) ELSE s

Trim(s) == TrimEnd(TrimStart(s))

\* s.includes(t)
Includes(s, t) ==
    \E i \in 0..(Len(s) - Len(t)) : SubSeq(s, i + 1, i + Len(t)) = t

(***************************************************************************)
(* Texts used by the model.                                                *)
(***************************************************************************)
Empty == <<>>
tA == <<"A">>
tAm == <<"A", "m">>
taMsp == <<"a", "M", " ">>
tBlank == <<" ", " ">>
tAman == <<"A", "m", "a", "n">>
tAmanSp == <<"A", "m", "a", "n", " ">>
tRitz == <<"R", "i", "t", "z">>
tSpa == <<"S", "p", "a">>
tGold == <<"G", "o", "l", "d">>
tGoldTier == <<"G", "o", "l", "d", " ", "T", "i", "e", "r">>
tPlat == <<"P", "l", "a", "t">>
tHotel == <<"H", "o", "t", "e", "l">>
tPartner == <<"P", "a", "r", "t", "n", "e", "r">>
tPaid == <<"P", "a", "i", "d">>
tDDP == <<"D", "D", "P">>
cUpper == <<"A", "B", "C", "D", "1", "2", "3", "4">>
cLower == <<"a", "b", "c", "d", "1", "2", "3", "4">>
cPadded == <<" ", "A", "B", "C", "D", "1", "2", "3", "4">>
cShort == <<"A", "B", "C">>

\* texts the user types into the Official Establishment Name input
NameInputs == {Empty, tAm, tAman, tAmanSp}
\* texts the user types into the Partner Early-Access Code input
CodeInputs == {Empty, cShort, cUpper, cLower, cPadded}
\* the texts typed when both lookup flows run in one session
FewNameInputs == {tAm, tAman}
FewCodeInputs == {cShort, cUpper}
\* the queries the gateway is driven with
QueryInputs == {tA, tAm, taMsp, tBlank, tAman}

(***************************************************************************)
(* Field keys (FIELD_LABEL_TO_KEY) and the mode table (MODES).             *)
(***************************************************************************)
InputKeys == {"redemptionCode", "officialEstablishmentName", "customEstablishmentName"}
SelectKeys == {"establishmentType", "partnerStatus", "awardLevel", "dutiesAndTaxes"}
FieldKeys == InputKeys \cup SelectKeys

CodeMode == "Partner Early-Access Code Lookup"
NameMode == "Establishment Name Lookup"

MODES ==
    (CodeMode :> [hide |-> {},
                  prevent |-> {"establishmentType", "partnerStatus", "awardLevel",
                               "dutiesAndTaxes", "officialEstablishmentName"}]) @@
    (NameMode :> [hide |-> {"redemptionCode"},
                  prevent |-> {"establishmentType", "partnerStatus", "awardLevel",
                               "dutiesAndTaxes"}])

(***************************************************************************)
(* Records of the remote store.  An attribute value is a text or a list of *)
(* texts (arr); for a list, text holds the values joined by ', '.  An      *)
(* absent attribute is the empty text.                                     *)
(***************************************************************************)
Txt(t) == [arr |-> FALSE, text |-> t]
Lst(t) == [arr |-> TRUE, text |-> t]
Absent == Txt(Empty)

\* JavaScript truthiness of an attribute value: every array is truthy
Truthy(v) == v.arr \/ v.text # Empty

R1 == [id |-> "rec1", name |-> Txt(tAman), establishmentType |-> Txt(tHotel),
       partnerStatus |-> Txt(tPartner), awardLevel |-> Txt(tGold),
       dutiesAndTaxes |-> Absent]
R2 == [id |-> "rec2", name |-> Txt(tRitz), establishmentType |-> Txt(tHotel),
       partnerStatus |-> Absent, awardLevel |-> Txt(tPlat),
       dutiesAndTaxes |-> Txt(tPaid)]
R3 == [id |-> "rec3", name |-> Txt(tSpa), establishmentType |-> Absent,
       partnerStatus |-> Absent, awardLevel |-> Lst(tGold),
       dutiesAndTaxes |-> Absent]

Records == {R1, R2, R3}

\* the record lists the remote store answers with
RecordLists == {<<>>, <<R1>>, <<R2>>, <<R3>>}

\* the options of each select of the form, in document order
Opt(t, v, d) == [text |-> t, value |-> v, dataName |-> d]
Placeholder == Opt(Empty, Empty, Empty)

SelectOptions ==
    [k \in SelectKeys |->
        CASE k = "establishmentType" -> <<Placeholder, Opt(tHotel, <<"h">>, Empty)>>
          [] k = "partnerStatus" -> <<Placeholder, Opt(tPartner, <<"p">>, Empty)>>
          [] k = "awardLevel" -> <<Placeholder, Opt(tGoldTier, <<"g">>, Empty)>>
          [] k = "dutiesAndTaxes" -> <<Placeholder, Opt(tPaid, <<"d">>, tDDP)>>]

(***************************************************************************)
(* Field groups and the scan (initializeFields): the label of a group is   *)
(* normalised and resolved to a field key through FIELD_LABEL_TO_KEY.      *)
(***************************************************************************)
lCode ==
    <<"P", "a", "r", "t", "n", "e", "r", " ", "E", "a", "r", "l", "y", "-",
      "A", "c", "c", "e", "s", "s", " ", "C", "o", "d", "e">>
lName ==
    <<"O", "f", "f", "i", "c", "i", "a", "l", " ", "E", "s", "t", "a", "b",
      "l", "i", "s", "h", "m", "e", "n", "t", " ", "N", "a", "m", "e">>
lCustom ==
    <<"C", "u", "s", "t", "o", "m", " ", "E", "s", "t", "a", "b", "l", "i",
      "s", "h", "m", "e", "n", "t", " ", "N", "a", "m", "e">>
lType ==
    <<"E", "s", "t", "a", "b", "l", "i", "s", "h", "m", "e", "n", "t", " ",
      "T", "y", "p", "e">>
lStatus == <<"P", "a", "r", "t", "n", "e", "r", " ", "S", "t", "a", "t", "u", "s">>
lAward == <<"A", "w", "a", "r", "d", " ", "L", "e", "v", "e", "l">>
lDuties == <<"D", "u", "t", "i", "e", "s", " ", "&", " ", "T", "a", "x", "e", "s">>
lTypeRequired ==
    <<"E", "s", "t", "a", "b", "l", "i", "s", "h", "m", "e", "n", "t", " ",
      "T", "y", "p", "e", " ", "(", "R", "e", "q", "u", "i", "r", "e", "d",
      ")">>
lStatusStar ==
    <<"P", "a", "r", "t", "n", "e", "r", " ", " ", "S", "t", "a", "t", "u",
      "s", " ", "*">>
lLevel == <<"L", "e", "v", "e", "l">>
dAward == <<"a", "w", "a", "r", "d", " ", "l", "e", "v", "e", "l">>
lDutiesColon == <<"D", "u", "t", "i", "e", "s", " ", "&", " ", "T", "a", "x", "e", "s", ":">>
lNews == <<"N", "e", "w", "s", "l", "e", "t", "t", "e", "r">>
tRequired == <<"(", "r", "e", "q", "u", "i", "r", "e", "d", ")">>

\* String.prototype.replace(/\s+/g, ' ')
RECURSIVE CollapseSpaces(_)
CollapseSpaces(s) ==
    IF Len(s) < 2 THEN s
    ELSE IF s[1] = " " /\ s[2] = " " THEN CollapseSpaces(Tail(s))
    ELSE <<s[1]>> \o CollapseSpaces(Tail(s))

\* String.prototype.replace(/\(required\)/i, ''): the first occurrence
RemoveRequired(s) ==
    LET n == Len(tRequired)
        hits == {i \in 1..(Len(s) - n + 1) :
                    ToLowerCase(SubSeq(s, i, i + n - 1)) = tRequired}
    IN IF hits = {} THEN s
       ELSE LET i == CHOOSE h \in hits : \A j \in hits : h <= j
            IN SubSeq(s, 1, i - 1) \o SubSeq(s, i + n, Len(s))

\* String.prototype.replace(/:$/, '')
StripColon(s) ==
    IF s # <<>> /\ s[Len(s)] = ":" THEN SubSeq(s, 1, Len(s) - 1) ELSE s

\* the visible text of a label as the scan reads it
LabelText(t) == Trim(StripColon(RemoveRequired(CollapseSpaces(Trim(t)))))

StartsWith(s, t) == Len(t) <= Len(s) /\ SubSeq(s, 1, Len(t)) = t

\* the entries of FIELD_LABEL_TO_KEY, in insertion order
FIELD_LABEL_TO_KEY ==
    << <<lCode, "redemptionCode">>,
       <<lName, "officialEstablishmentName">>,
       <<lCustom, "customEstablishmentName">>,
       <<lType, "establishmentType">>,
       <<lStatus, "partnerStatus">>,
       <<lAward, "awardLevel">>,
       <<lDuties, "dutiesAndTaxes">> >>

\* no key: the group is not one of the controller's fields
Unmapped == "unmapped"

\* the key of the first of the entries numbered in hits, if any
FirstKey(hits) ==
    IF hits = {} THEN Unmapped
    ELSE FIELD_LABEL_TO_KEY[CHOOSE h \in hits : \A j \in hits : h <= j][2]

\* the entries whose label is the text t
EntriesEqual(t) ==
    {i \in DOMAIN FIELD_LABEL_TO_KEY : FIELD_LABEL_TO_KEY[i][1] = t}

\* the entries whose label is the text t, letter case apart
EntriesEqualLower(t) ==
    {i \in DOMAIN FIELD_LABEL_TO_KEY :
        ToLowerCase(FIELD_LABEL_TO_KEY[i][1]) = ToLowerCase(t)}

\* the entries whose label the text t starts with, letter case apart
EntriesPrefixOf(t) ==
    {i \in DOMAIN FIELD_LABEL_TO_KEY :
        StartsWith(ToLowerCase(t), ToLowerCase(FIELD_LABEL_TO_KEY[i][1]))}

\* a field group: its label element (if any) and text, its control and the
\* data-name attribute of its select
Group(hasLabel, label, control, dataName) ==
    [hasLabel |-> hasLabel, label |-> label, control |-> control, dataName |-> dataName]

KeyOfNameFirst(g) ==
    IF ~g.hasLabel THEN Unmapped
    ELSE LET rawText == LabelText(g.label)
             exact == FirstKey(EntriesEqual(rawText))
             prefix == FirstKey(EntriesPrefixOf(rawText))
             dataName == Trim(g.dataName)
             byName == LET e == FirstKey(EntriesEqual(dataName))
                       IN IF e # Unmapped THEN e
                          ELSE FirstKey(EntriesEqualLower(dataName))
         IN IF g.control = "select" /\ g.dataName # Empty /\ byName # Unmapped
            THEN byName
            ELSE IF exact # Unmapped THEN exact
            ELSE prefix

\* the key a group resolves to: the exact label, else the first known label
\* the text starts with (letter case apart), else the select's data-name
KeyOf(g) ==
    IF ~g.hasLabel THEN Unmapped
    ELSE LET rawText == LabelText(g.label)
             exact == FirstKey(EntriesEqual(rawText))
             prefix == FirstKey(EntriesPrefixOf(rawText))
             dataName == Trim(g.dataName)
             byName == LET e == FirstKey(EntriesEqual(dataName))
                       IN IF e # Unmapped THEN e
                          ELSE FirstKey(EntriesEqualLower(dataName))
         IN IF exact # Unmapped THEN exact
            ELSE IF prefix # Unmapped THEN prefix
            ELSE IF g.control = "select" /\ g.dataName # Empty THEN byName
            ELSE Unmapped

\* the groups a page may hold: the seven fields, labelled in the ways the
\* scan resolves, a group of another form and a group without a label
Groups ==
    [code |-> Group(TRUE, lCode, "input", Empty),
     name |-> Group(TRUE, lName, "input", Empty),
     custom |-> Group(TRUE, lCustom, "input", Empty),
     type |-> Group(TRUE, lTypeRequired, "select", Empty),
     status |-> Group(TRUE, lStatusStar, "select", Empty),
     award |-> Group(TRUE, lLevel, "select", dAward),
     duties |-> Group(TRUE, lDutiesColon, "select", Empty),
     news |-> Group(TRUE, lNews, "input", Empty),
     bare |-> Group(FALSE, Empty, "input", Empty)]

\* the key each group resolves to
GroupKey == [g \in DOMAIN Groups |-> KeyOf(Groups[g])]

\* the keys the groups of the document resolve to
Resolved(its) ==
    {GroupKey[g] : g \in {h \in DOMAIN Groups : its[h] # "absent"}} \ {Unmapped}

\* the group of a field key
GroupOf(k) == CHOOSE g \in DOMAIN Groups : GroupKey[g] = k

RebindKeeping(old, its) == old \cup Resolved(its)

\* fields = {} and one binding per group that resolves to a key
Rebind(old, its) == Resolved(its)

ScanConfigNone(mode) == [hide |-> {}, prevent |-> {}]

\* the lists setMode(currentMode) applies at the end of the scan
ScanConfig(mode) ==
    IF mode \in DOMAIN MODES THEN MODES[mode] ELSE [hide |-> {}, prevent |-> {}]

(***************************************************************************)
(* State.                                                                  *)
(***************************************************************************)
VARIABLES
    value,                      \* text of each bound input
    selectedIndex,              \* selectedIndex of each bound select
    hidden,                     \* field keys whose wrapper has display:none
    locked,                     \* field keys preventEdit has been applied to
    currentMode,
    lastSelectedEstablishment,  \* [id, name]; the empty text stands for null
    submitDisabled,             \* disabled state of the form's submit control
    mismatchAlertDispatched,
    airtableCache,              \* the Map, as its entries in insertion order
    maxCache,                   \* MAX_CACHE
    requests,                   \* fetches in flight, by request id
    nextRequest,                \* id of the next fetch
    nameSearchController,       \* id of the fetch its signal is attached to
    codeLookupController,
    sourceTimer,                \* pending debounced source(query, callback)
    nameInputTimer,             \* pending debounced 'input' listener (name)
    codeInputTimer,             \* pending debounced handleInput (code)
    suggestions,                \* items last handed to the widget callback
    items,                      \* the field groups (.form-item) of the document
    fields,                     \* the field keys bound by the last scan
    now,                        \* the clock, in ticks
    debounceTimer,              \* the timer t of a debounced function
    boot,                       \* start-up: what has run and what is registered
    touched,                    \* history: cache keys by recency of touch
    lastOp                      \* history: the handler that ran last

pageVars == <<value, selectedIndex, locked, lastSelectedEstablishment,
              submitDisabled, mismatchAlertDispatched>>
modeVars == <<hidden, currentMode>>
bindVars == <<items, fields>>
cacheVars == <<airtableCache, maxCache, touched>>
netVars == <<requests, nextRequest, nameSearchController, codeLookupController>>
timerVars == <<sourceTimer, nameInputTimer, codeInputTimer>>
clockVars == <<now, debounceTimer, boot>>
vars == <<pageVars, modeVars, bindVars, cacheVars, netVars, timerVars, clockVars,
          suggestions, lastOp>>

NoController == 0
NoSelection == [id |-> Null, name |-> Empty]
NoTimer == [pending |-> FALSE, query |-> Empty]
NoTimeout == [pending |-> FALSE, args |-> Empty, due |-> 0]

(***************************************************************************)
(* Lookup cache: cacheGet / cacheSet over the Map's insertion order.       *)
(***************************************************************************)
CacheHas(cache, key) == \E i \in 1..Len(cache) : cache[i].key = key

CacheValue(cache, key) ==
    cache[CHOOSE i \in 1..Len(cache) : cache[i].key = key].value

CacheDelete(cache, key) == SelectSeq(cache, LAMBDA e : e.key # key)

CacheKeys(cache) == [i \in 1..Len(cache) |-> cache[i].key]

\* an answer: the records, and (history) the query text it answers
Answer(records, q) == [records |-> records, q |-> q]

NoData == Answer(<<>>, <<>>)

cacheGetNoRefresh(cache, key) ==
    IF ~CacheHas(cache, key)
    THEN [hit |-> FALSE, val |-> NoData, cache |-> cache]
    ELSE [hit |-> TRUE, val |-> CacheValue(cache, key), cache |-> cache]

cacheGet(cache, key) ==
    IF ~CacheHas(cache, key)
    THEN [hit |-> FALSE, val |-> NoData, cache |-> cache]
    ELSE LET val == CacheValue(cache, key)
         IN [hit |-> TRUE, val |-> val,
             cache |-> Append(CacheDelete(cache, key), [key |-> key, value |-> val])]

cacheSet(cache, key, val) ==
    LET c1 == IF CacheHas(cache, key) THEN CacheDelete(cache, key) ELSE cache
        c2 == Append(c1, [key |-> key, value |-> val])
    IN IF Len(c2) > maxCache THEN Tail(c2) ELSE c2

\* history of touches: the key moves to the most-recent end
Touch(order, key) == Append(SelectSeq(order, LAMBDA k : k # key), key)

(***************************************************************************)
(* The page: the DOM and module state the handlers read and write, as one  *)
(* record threaded through the statements of a handler.  fields is the map *)
(* of bound field keys the handlers go through.  notices and               *)
(* messages are history: the blocking notices (window.alert) raised and    *)
(* the inline mismatch messages written by the handler so far, locks the   *)
(* fields preventEdit has been applied to by the handler so far, calls the *)
(* selects the option matcher has been run on by the handler so far.       *)
(***************************************************************************)
Page ==
    [value |-> value, selectedIndex |-> selectedIndex, locked |-> locked,
     lastSelectedEstablishment |-> lastSelectedEstablishment,
     submitDisabled |-> submitDisabled,
     mismatchAlertDispatched |-> mismatchAlertDispatched,
     fields |-> fields, notices |-> 0, messages |-> 0, locks |-> {}, calls |-> <<>>]

SetPage(p) ==
    /\ value' = p.value
    /\ selectedIndex' = p.selectedIndex
    /\ locked' = p.locked
    /\ lastSelectedEstablishment' = p.lastSelectedEstablishment
    /\ submitDisabled' = p.submitDisabled
    /\ mismatchAlertDispatched' = p.mismatchAlertDispatched

\* resetFields(exclusions): resetField on every bound field not excluded
resetFields(p, exclusions) ==
    [p EXCEPT
        !.value = [k \in InputKeys |->
                      IF k \in exclusions \/ k \notin p.fields THEN @[k] ELSE Empty],
        !.selectedIndex = [k \in SelectKeys |->
                      IF k \in exclusions \/ k \notin p.fields THEN @[k] ELSE 0]]

updateFormSubmitStateStale(p) == p

\* the form is present (formEl set by initializeSystem)
updateFormSubmitState(p) ==
    [p EXCEPT !.submitDisabled = ~(p.lastSelectedEstablishment.id # Null)]

resetDependentFieldsKeepSelection(p, exclusions) ==
    LET p1 == resetFields(p, exclusions)
    IN IF "customEstablishmentName" \notin exclusions
          /\ "customEstablishmentName" \in p.fields
       THEN [p1 EXCEPT !.value["customEstablishmentName"] = Empty]
       ELSE p1

resetDependentFields(p, exclusions) ==
    LET p1 == resetFields(p, exclusions)
        p2 == IF "customEstablishmentName" \notin exclusions
                 /\ "customEstablishmentName" \in p.fields
              THEN [p1 EXCEPT !.value["customEstablishmentName"] = Empty]
              ELSE p1
        p3 == [p2 EXCEPT !.lastSelectedEstablishment = NoSelection]
    IN updateFormSubmitState(p3)

preventInteractionToggle(p, fieldNames) ==
    [p EXCEPT !.locked = (@ \ fieldNames) \cup ((fieldNames \cap p.fields) \ @)]

\* hideElements(fieldNames): display none on the wrapper of every named
\* bound field
hideElements(p, hid, fieldNames) == hid \cup (fieldNames \cap p.fields)

\* preventInteraction(fieldNames): preventEdit on every named bound field
preventInteraction(p, fieldNames) ==
    [p EXCEPT !.locked = @ \cup (fieldNames \cap p.fields),
              !.locks = @ \cup (fieldNames \cap p.fields)]

clearAndResetForm(p) ==
    LET p1 == resetFields(p, {})
        preventList ==
            IF currentMode = CodeMode
            THEN {"establishmentType", "partnerStatus", "awardLevel",
                  "dutiesAndTaxes", "officialEstablishmentName"}
            ELSE {"establishmentType", "partnerStatus", "awardLevel", "dutiesAndTaxes"}
        p2 == preventInteraction(p1, preventList)
    IN IF currentMode # CodeMode /\ "officialEstablishmentName" \in p.fields
       THEN [p2 EXCEPT !.value["officialEstablishmentName"] = Empty]
       ELSE p2

(***************************************************************************)
(* Option matcher.                                                         *)
(***************************************************************************)
OptionMatchesExact(o, tv) ==
    \E v \in {Trim(o.text), o.value, Trim(o.dataName)} : ToLowerCase(v) = tv

OptionMatches(o, tv) ==
    \E v \in {Trim(o.text), o.value, Trim(o.dataName)} :
        ToLowerCase(v) = tv \/ Includes(ToLowerCase(v), tv)

\* position (from 1) of the first matching option, 0 when none matches
MatchIndex(options, tv) ==
    IF \E i \in 1..Len(options) : OptionMatches(options[i], tv)
    THEN CHOOSE i \in 1..Len(options) :
            /\ OptionMatches(options[i], tv)
            /\ \A j \in 1..(i - 1) : ~OptionMatches(options[j], tv)
    ELSE 0

\* the mismatch branch: the inline message is written, the blocking notice
\* is raised unless one was raised within the cooldown, the form is reset
Mismatch(p) ==
    clearAndResetForm(
        [p EXCEPT !.messages = @ + 1,
                  !.notices = IF p.mismatchAlertDispatched THEN @ ELSE @ + 1,
                  !.mismatchAlertDispatched = TRUE])

MismatchAlways(p) ==
    clearAndResetForm(
        [p EXCEPT !.messages = @ + 1,
                  !.notices = @ + 1,
                  !.mismatchAlertDispatched = TRUE])

setSelectValueNoGuard(p, key, target) ==
    LET i == MatchIndex(SelectOptions[key], ToLowerCase(target.text))
        p1 == [p EXCEPT !.calls = Append(@, key)]
    IN IF i > 0
       THEN [p1 EXCEPT !.selectedIndex[key] = i - 1]
       ELSE Mismatch(p1)

setSelectValueAlwaysAlerts(p, key, target) ==
    IF ~Truthy(target) THEN p
    ELSE LET i == MatchIndex(SelectOptions[key], ToLowerCase(target.text))
             p1 == [p EXCEPT !.calls = Append(@, key)]
         IN IF i > 0
            THEN [p1 EXCEPT !.selectedIndex[key] = i - 1]
            ELSE MismatchAlways(p1)

\* setSelectValue for a text target (a list target raises before this point)
setSelectValue(p, key, target) ==
    IF ~Truthy(target) THEN p
    ELSE LET i == MatchIndex(SelectOptions[key], ToLowerCase(target.text))
             p1 == [p EXCEPT !.calls = Append(@, key)]
         IN IF i > 0
            THEN [p1 EXCEPT !.selectedIndex[key] = i - 1]
            ELSE Mismatch(p1)

\* the notifications setSelectValue emits on a select
JQueryChange == [type |-> "change", via |-> "jQuery.trigger"]
NativeChange == [type |-> "change", via |-> "dispatchEvent"]

\* setSelectValue(selectElement, targetValue) on a select given by its
\* options, whether Select2 has enhanced it (class select2-hidden-accessible)
\* and whether its wrapper shows a mismatch indicator: the value returned,
\* the position of the option selected (0: none), the notifications emitted
\* by setSelectValue itself, the indicator afterwards, whether the mismatch
\* branch ran (message, notice, clearAndResetForm) and whether it raised
setSelectValueOn(options, target, select2, hint) ==
    LET quiet == [returned |-> FALSE, assigned |-> 0, events |-> <<>>,
                  hint |-> hint, mismatch |-> FALSE, threw |-> FALSE]
    IN IF ~Truthy(target) THEN quiet
       ELSE IF target.arr THEN [quiet EXCEPT !.threw = TRUE]
       ELSE LET i == MatchIndex(options, ToLowerCase(target.text))
            IN IF i > 0
               THEN [quiet EXCEPT
                        !.returned = TRUE,
                        !.assigned = i,
                        !.events = (IF select2 THEN <<JQueryChange>> ELSE <<>>)
                                       \o <<NativeChange>>,
                        !.hint = FALSE]
               ELSE [quiet EXCEPT !.mismatch = TRUE, !.hint = FALSE]

(***************************************************************************)
(* Selection resolver: handleRedemptionCodeSelection + updateSelectElements*)
(* as the sequence of statements they execute, stopping at the first one   *)
(* that raises (targetValue.toLowerCase on a list).  A statement on a      *)
(* field the map does not hold is skipped.                                 *)
(***************************************************************************)
SelStep(key, target) == [kind |-> "select", key |-> key, target |-> target]
CustomStep(text) == [kind |-> "custom", key |-> "customEstablishmentName", target |-> Txt(text)]

RECURSIVE RunSteps(_, _)
RunSteps(p, steps) ==
    IF steps = <<>> THEN [page |-> p, threw |-> FALSE]
    ELSE LET st == Head(steps)
         IN IF st.key \notin p.fields
            THEN RunSteps(p, Tail(steps))
            ELSE IF st.kind = "custom"
            THEN RunSteps([p EXCEPT !.value["customEstablishmentName"] = st.target.text],
                          Tail(steps))
            ELSE IF Truthy(st.target) /\ st.target.arr
                 THEN [page |-> p, threw |-> TRUE]
                 ELSE RunSteps(setSelectValue(p, st.key, st.target), Tail(steps))

dropdownMappings == <<"awardLevel", "establishmentType", "partnerStatus", "dutiesAndTaxes">>

updateSelectElements(record) ==
    <<CustomStep(record.name.text),
      SelStep("partnerStatus", record.partnerStatus),
      SelStep("awardLevel", record.awardLevel),
      SelStep("dutiesAndTaxes", record.dutiesAndTaxes)>>

handleRedemptionCodeSelection(p, record) ==
    LET written == IF Truthy(record.name)
                   THEN {"officialEstablishmentName", "customEstablishmentName"}
                            \cap p.fields
                   ELSE {}
        p1 == [p EXCEPT !.value = [k \in InputKeys |->
                            IF k \in written THEN record.name.text ELSE @[k]]]
        mapped == SelectSeq(dropdownMappings, LAMBDA k : Truthy(record[k]))
        first == [i \in 1..Len(mapped) |-> SelStep(mapped[i], record[mapped[i]])]
    IN RunSteps(p1, first \o updateSelectElements(record))

\* lastSelectedEstablishment as both lookup flows set it after applying a record
Confirm(p, record) ==
    LET n == IF Truthy(record.name) THEN record.name.text
             ELSE IF "officialEstablishmentName" \in p.fields
             THEN p.value["officialEstablishmentName"]
             ELSE Empty
    IN updateFormSubmitState(
         [p EXCEPT !.lastSelectedEstablishment = [id |-> record.id, name |-> n]])

(***************************************************************************)
(* Query gateway.                                                          *)
(***************************************************************************)
NameField == "Official Establishment Name"
CodeField == "Redemption Code"

NoKey == <<"", Empty>>

queryAirtableContainsRawKey(cache, field, query) ==
    LET cleanQuery == Trim(query)
    IN IF cleanQuery = Empty
       THEN [kind |-> "empty", data |-> NoData, cache |-> cache,
             key |-> NoKey, q |-> cleanQuery]
       ELSE LET cacheKey == <<field, cleanQuery>>
                cached == cacheGet(cache, cacheKey)
            IN IF cached.hit
               THEN [kind |-> "hit", data |-> cached.val, cache |-> cached.cache,
                     key |-> cacheKey, q |-> cleanQuery]
               ELSE [kind |-> "fetch", data |-> NoData, cache |-> cached.cache,
                     key |-> cacheKey, q |-> cleanQuery]

queryAirtableContainsNoGuard(cache, field, query) ==
    LET cleanQuery == Trim(query)
        cacheKey == <<field, ToLowerCase(cleanQuery)>>
        cached == cacheGet(cache, cacheKey)
    IN IF cached.hit
       THEN [kind |-> "hit", data |-> cached.val, cache |-> cached.cache,
             key |-> cacheKey, q |-> cleanQuery]
       ELSE [kind |-> "fetch", data |-> NoData, cache |-> cached.cache,
             key |-> cacheKey, q |-> cleanQuery]

\* queryAirtableContains up to its first await: an immediate result (empty
\* query or cache hit) or the fetch to issue
queryAirtableContains(cache, field, query) ==
    LET cleanQuery == Trim(query)
    IN IF cleanQuery = Empty
       THEN [kind |-> "empty", data |-> NoData, cache |-> cache,
             key |-> NoKey, q |-> cleanQuery]
       ELSE LET cacheKey == <<field, ToLowerCase(cleanQuery)>>
                cached == cacheGet(cache, cacheKey)
            IN IF cached.hit
               THEN [kind |-> "hit", data |-> cached.val, cache |-> cached.cache,
                     key |-> cacheKey, q |-> cleanQuery]
               ELSE [kind |-> "fetch", data |-> NoData, cache |-> cached.cache,
                     key |-> cacheKey, q |-> cleanQuery]

\* searchAirtableForAutocomplete: records with a non-blank text name
searchAirtableForAutocomplete(records) ==
    SelectSeq(records, LAMBDA r : ~r.name.arr /\ Trim(r.name.text) # Empty)

\* the errors a query can end with: Error('HTTP <status>: ...') for a response
\* that is not ok, the AbortError DOMException (legacy code 20) of an aborted
\* fetch
HttpError == [name |-> "Error", code |-> 0]
AbortError == [name |-> "AbortError", code |-> 20]

IsAbortErrorNever(error) == FALSE

\* the test both callers' catch handlers apply to tell cancellation apart
IsAbortError(error) == error.name = "AbortError" \/ error.code = 20

\* the server's answer: a success status with a record list, or another status
OkResponse(records) == [ok |-> TRUE, records |-> records]
FailedResponse == [ok |-> FALSE, records |-> <<>>]

queryAirtableContainsCachingFailure(cache, key, q, response) ==
    LET data == Answer(response.records, q)
    IN [threw |-> ~response.ok, error |-> HttpError, data |-> data,
        cache |-> cacheSet(cache, key, data)]

\* queryAirtableContains from the answer of its fetch on: a response that is
\* not ok raises before cacheSet, an ok one is stored and returned
queryAirtableContainsResume(cache, key, q, response) ==
    IF ~response.ok
    THEN [threw |-> TRUE, error |-> HttpError, data |-> NoData, cache |-> cache]
    ELSE LET data == Answer(response.records, q)
         IN [threw |-> FALSE, error |-> HttpError, data |-> data,
             cache |-> cacheSet(cache, key, data)]

AbortNothing(reqs, controller) == reqs

\* AbortController.abort(): the signal of the fetch it belongs to is aborted
Abort(reqs, controller) ==
    IF controller \in DOMAIN reqs
    THEN [reqs EXCEPT ![controller].aborted = TRUE]
    ELSE reqs

\* history: every fetch of the channel still in flight is now superseded
Supersede(reqs, channel) ==
    [r \in DOMAIN reqs |->
        IF reqs[r].channel = channel THEN [reqs[r] EXCEPT !.superseded = TRUE]
        ELSE reqs[r]]

\* history: the handler of the channel has run again since each of its
\* fetches still in flight was issued
Outdate(reqs, channel) ==
    [r \in DOMAIN reqs |->
        IF reqs[r].channel = channel THEN [reqs[r] EXCEPT !.outdated = TRUE]
        ELSE reqs[r]]

NewRequest(channel, q) ==
    [channel |-> channel, key |-> q.key, q |-> q.q,
     aborted |-> FALSE, superseded |-> FALSE, outdated |-> FALSE]

Issue(reqs, channel, q) == (nextRequest :> NewRequest(channel, q)) @@ reqs

Remove(reqs, r) == [i \in DOMAIN reqs \ {r} |-> reqs[i]]

\* an inline message a handler leaves under a field: the error message
\* (showInlineErrorMessage), the no-results message (showNoResultsMessage)
\* or the help text on the length of the code
Msg(kind, key) == [kind |-> kind, under |-> key]

\* the no-results message of the name search, shown when the list is empty
NameShown(results) ==
    IF Len(results) = 0 THEN {Msg("noResults", "officialEstablishmentName")} ELSE {}

Op(name) ==
    [op |-> name, callback |-> FALSE, fetched |-> FALSE, cacheRead |-> FALSE,
     applied |-> Null, threw |-> FALSE, stale |-> FALSE,
     hadSelection |-> lastSelectedEstablishment.name # Empty,
     notices |-> 0, messages |-> 0, shown |-> {}, locks |-> {}, calls |-> <<>>]

\* the history is kept unless it was switched off in the initial state
Note(op) == lastOp' = IF lastOp.op = "off" THEN lastOp ELSE op

(***************************************************************************)
(* Initial state: initializeSystem has run once on a page that holds the   *)
(* seven field groups and a form with a submit control.  The groups found  *)
(* by that first scan are the "original" ones: the listeners of the two    *)
(* lookup flows are bound to the inputs of the original code and name      *)
(* groups.                                                                 *)
(***************************************************************************)
MAX_CACHE == 50

\* start-up as it is before the document is ready: whether the ready callback
\* has run, whether window.Autocomplete is defined, whether the library has
\* announced itself (autocompleteReady), whether the listener of that event
\* is registered, the fallback timer, and the number of runs of
\* initializeSystem with the handlers they have attached
NotBooted ==
    [ready |-> FALSE, Autocomplete |-> FALSE, announced |-> FALSE,
     listening |-> FALSE, fallback |-> NoTimeout, runs |-> 0,
     inputHandlers |-> 0, submitHandlers |-> 0]

\* start-up over: the library was there when the document became ready and
\* initializeSystem has run
Booted ==
    [NotBooted EXCEPT !.ready = TRUE, !.Autocomplete = TRUE, !.announced = TRUE,
                      !.runs = 1, !.inputHandlers = 1, !.submitHandlers = 1]

InitialModeName == NameMode

\* let currentMode = 'Partner Early-Access Code Lookup'
InitialMode == CodeMode

InitWith(capacities, history) ==
    /\ value = [k \in InputKeys |-> Empty]
    /\ selectedIndex = [k \in SelectKeys |-> 0]
    /\ currentMode = InitialMode
    /\ hidden = MODES[InitialMode].hide
    /\ locked = MODES[InitialMode].prevent
    /\ lastSelectedEstablishment = NoSelection
    /\ submitDisabled = TRUE
    /\ mismatchAlertDispatched = FALSE
    /\ airtableCache = <<>>
    /\ maxCache \in capacities
    /\ requests = <<>>
    /\ nextRequest = 1
    /\ nameSearchController = NoController
    /\ codeLookupController = NoController
    /\ sourceTimer = NoTimer
    /\ nameInputTimer = FALSE
    /\ codeInputTimer = FALSE
    /\ suggestions = <<>>
    /\ items = [g \in DOMAIN Groups |->
                    IF GroupKey[g] \in FieldKeys THEN "original" ELSE "absent"]
    /\ fields = FieldKeys
    /\ now = 0
    /\ debounceTimer = NoTimeout
    /\ boot = Booted
    /\ touched = <<>>
    /\ lastOp = Op(history)

Init == InitWith({MAX_CACHE}, "off")

\* the same state, with the history kept
InitSession == InitWith({MAX_CACHE}, "init")

(***************************************************************************)
(* Name-search channel.                                                    *)
(***************************************************************************)
\* a keystroke in the name input: the widget calls the debounced source and
\* the debounced 'input' listener is armed
TypeName(t) ==
    /\ items["name"] = "original"
    /\ t # value["officialEstablishmentName"]
    /\ value' = [value EXCEPT !["officialEstablishmentName"] = t]
    /\ sourceTimer' = [pending |-> TRUE, query |-> t]
    /\ nameInputTimer' = TRUE
    /\ Note(Op("TypeName"))
    /\ UNCHANGED <<selectedIndex, locked, lastSelectedEstablishment, submitDisabled,
                   mismatchAlertDispatched, modeVars, bindVars, clockVars, cacheVars, netVars,
                   codeInputTimer, suggestions>>

\* the debounced source(query, callback) runs
SourceFire ==
    /\ sourceTimer.pending
    /\ sourceTimer' = NoTimer
    /\ LET query == sourceTimer.query
       IN IF Len(query) < 2
          THEN /\ suggestions' = <<>>
               /\ requests' = Outdate(requests, "nameSearch")
               /\ Note([Op("SourceShort") EXCEPT !.callback = TRUE])
               /\ UNCHANGED <<cacheVars, nextRequest, nameSearchController,
                              codeLookupController>>
          ELSE LET reqs == Outdate(Supersede(Abort(requests, nameSearchController),
                                             "nameSearch"), "nameSearch")
                   q == queryAirtableContains(airtableCache, NameField, query)
               IN IF q.kind = "fetch"
                  THEN /\ nextRequest <= MaxRequests
                       /\ requests' = Issue(reqs, "nameSearch", q)
                       /\ nameSearchController' = nextRequest
                       /\ nextRequest' = nextRequest + 1
                       /\ Note([Op("SourceFetch") EXCEPT !.fetched = TRUE,
                                                            !.cacheRead = TRUE])
                       /\ UNCHANGED <<cacheVars, codeLookupController, suggestions>>
                  ELSE /\ requests' = reqs
                       /\ nameSearchController' = NoController
                       /\ airtableCache' = q.cache
                       /\ touched' = IF q.kind = "hit" THEN Touch(touched, q.key) ELSE touched
                       /\ suggestions' = searchAirtableForAutocomplete(q.data.records)
                       /\ Note([Op(IF q.kind = "hit" THEN "SourceHit" ELSE "SourceBlank")
                                        EXCEPT !.callback = TRUE,
                                               !.cacheRead = (q.kind = "hit"),
                                               !.shown = NameShown(suggestions')])
                       /\ UNCHANGED <<maxCache, nextRequest, codeLookupController>>
    /\ UNCHANGED <<pageVars, modeVars, bindVars, clockVars, nameInputTimer, codeInputTimer>>

Invalidation == {"officialEstablishmentName", "redemptionCode"}

\* the debounced 'input' listener of the name input runs
NameInputFire ==
    /\ nameInputTimer
    /\ nameInputTimer' = FALSE
    /\ LET current == Trim(value["officialEstablishmentName"])
           p1 == IF /\ lastSelectedEstablishment.name # Empty
                    /\ current # lastSelectedEstablishment.name
                 THEN resetDependentFields(Page, Invalidation)
                 ELSE Page
           p2 == IF current = Empty THEN resetDependentFields(p1, Invalidation) ELSE p1
       IN SetPage(p2)
    /\ Note(Op("NameInputFire"))
    /\ UNCHANGED <<modeVars, bindVars, clockVars, cacheVars, netVars, sourceTimer, codeInputTimer, suggestions>>

\* the 'blur' listener of the name input runs
NameBlur ==
    /\ LET current == Trim(value["officialEstablishmentName"])
       IN IF \/ current = Empty
             \/ /\ lastSelectedEstablishment.name # Empty
                /\ current # lastSelectedEstablishment.name
          THEN SetPage(resetDependentFields(Page, Invalidation))
          ELSE SetPage(Page)
    /\ Note(Op("NameBlur"))
    /\ UNCHANGED <<modeVars, bindVars, clockVars, cacheVars, netVars, timerVars, suggestions>>

\* onSelectItem(item) for an item of the list last given to the widget
PickItem(i) ==
    /\ i \in 1..Len(suggestions)
    /\ LET record == suggestions[i]
           h == handleRedemptionCodeSelection(Page, record)
       IN /\ SetPage(IF h.threw THEN h.page ELSE Confirm(h.page, record))
          /\ Note([Op("PickItem") EXCEPT !.applied = record.id, !.threw = h.threw,
                                          !.notices = h.page.notices,
                                          !.messages = h.page.messages,
                                          !.calls = h.page.calls])
    /\ suggestions' = <<>>
    /\ UNCHANGED <<modeVars, bindVars, clockVars, cacheVars, netVars, timerVars>>

(***************************************************************************)
(* Code-lookup channel.                                                    *)
(***************************************************************************)
CodeExclusions == {"redemptionCode", "officialEstablishmentName"}

\* a keystroke (or paste) in the code input arms the debounced handleInput
TypeCode(t) ==
    /\ items["code"] = "original"
    /\ "redemptionCode" \notin hidden
    /\ t # value["redemptionCode"]
    /\ value' = [value EXCEPT !["redemptionCode"] = t]
    /\ codeInputTimer' = TRUE
    /\ Note(Op("TypeCode"))
    /\ UNCHANGED <<selectedIndex, locked, lastSelectedEstablishment, submitDisabled,
                   mismatchAlertDispatched, modeVars, bindVars, clockVars, cacheVars, netVars,
                   sourceTimer, nameInputTimer, suggestions>>

\* handleInput after its await: the try block from the answer on
CodeApply(p, data) ==
    IF Len(data.records) > 0
    THEN LET h == handleRedemptionCodeSelection(p, data.records[1])
         IN IF h.threw
            THEN resetDependentFields(h.page, CodeExclusions)
            ELSE Confirm(h.page, data.records[1])
    ELSE resetDependentFields(p, CodeExclusions)

CodeThrew(p, data) ==
    Len(data.records) > 0 /\ handleRedemptionCodeSelection(p, data.records[1]).threw

\* the message handleInput leaves under the code input after its await
CodeShown(p, data) ==
    IF Len(data.records) = 0 THEN {Msg("noResults", "redemptionCode")}
    ELSE IF CodeThrew(p, data) THEN {Msg("error", "redemptionCode")}
    ELSE {}

CodeNotEmpty(code) == Len(code) > 0

\* code.length === 8 (its negation code.length !== 8 guards the help text)
CodeComplete(code) == Len(code) = 8

\* the debounced handleInput runs, up to its await (or to its end when the
\* answer comes from the cache)
CodeInputFire ==
    /\ codeInputTimer
    /\ codeInputTimer' = FALSE
    /\ LET code == Trim(value["redemptionCode"])
           p1 == resetFields(Page, {"redemptionCode"})
           reqs == Outdate(Supersede(Abort(requests, codeLookupController),
                                     "codeLookup"), "codeLookup")
       IN IF ~CodeComplete(code)
          THEN /\ SetPage(resetDependentFields(p1, CodeExclusions))
               /\ requests' = reqs
               /\ Note([Op("CodeLength") EXCEPT
                                !.shown = {Msg("length", "redemptionCode")}])
               /\ UNCHANGED <<cacheVars, nextRequest, nameSearchController,
                              codeLookupController>>
          ELSE LET q == queryAirtableContains(airtableCache, CodeField, code)
               IN IF q.kind = "fetch"
                  THEN /\ nextRequest <= MaxRequests
                       /\ SetPage(p1)
                       /\ requests' = Issue(reqs, "codeLookup", q)
                       /\ codeLookupController' = nextRequest
                       /\ nextRequest' = nextRequest + 1
                       /\ Note([Op("CodeFetch") EXCEPT !.fetched = TRUE,
                                                          !.cacheRead = TRUE])
                       /\ UNCHANGED <<cacheVars, nameSearchController>>
                  ELSE /\ SetPage(CodeApply(p1, q.data))
                       /\ requests' = reqs
                       /\ codeLookupController' = NoController
                       /\ airtableCache' = q.cache
                       /\ touched' = Touch(touched, q.key)
                       /\ Note([Op("CodeHit") EXCEPT
                                        !.cacheRead = TRUE,
                                        !.applied = IF Len(q.data.records) > 0
                                                    THEN q.data.records[1].id ELSE Null,
                                        !.threw = CodeThrew(p1, q.data),
                                        !.notices = CodeApply(p1, q.data).notices,
                                        !.messages = CodeApply(p1, q.data).messages,
                                        !.calls = CodeApply(p1, q.data).calls,
                                        !.shown = CodeShown(p1, q.data)])
                       /\ UNCHANGED <<maxCache, nextRequest, nameSearchController>>
    /\ UNCHANGED <<modeVars, bindVars, clockVars, sourceTimer, nameInputTimer, suggestions>>

\* the texts typed into the custom-name input
CustomInputs == {tAm, tSpa}

\* a keystroke in the custom-name input, which has no listener
TypeCustom(t) ==
    /\ t # value["customEstablishmentName"]
    /\ value' = [value EXCEPT !["customEstablishmentName"] = t]
    /\ Note(Op("TypeCustom"))
    /\ UNCHANGED <<selectedIndex, locked, lastSelectedEstablishment, submitDisabled,
                   mismatchAlertDispatched, modeVars, bindVars, clockVars, cacheVars, netVars,
                   timerVars, suggestions>>

(***************************************************************************)
(* Resolution of a fetch.  A fetch whose signal is aborted rejects with    *)
(* AbortError; any other fetch answers with a record list or fails (a      *)
(* non-success status or a network error).                                 *)
(***************************************************************************)
\* the catch handlers of source (name search) and of handleInput (code
\* lookup) for the error the query of request r ended with
Caught(r, error) ==
    IF IsAbortError(error)
    THEN /\ Note([Op("FetchAborted") EXCEPT !.stale = requests[r].superseded])
         /\ UNCHANGED <<pageVars, suggestions>>
    ELSE IF requests[r].channel = "nameSearch"
    THEN /\ suggestions' = <<>>
         /\ Note([Op("NameFailed") EXCEPT
                      !.callback = TRUE,
                      !.stale = requests[r].superseded,
                      !.shown = {Msg("error", "officialEstablishmentName")}])
         /\ UNCHANGED pageVars
    ELSE /\ SetPage(resetDependentFields(Page, CodeExclusions))
         /\ Note([Op("CodeFailed") EXCEPT
                      !.stale = requests[r].superseded,
                      !.shown = {Msg("error", "redemptionCode")}])
         /\ UNCHANGED suggestions

FetchAborted(r) ==
    /\ r \in DOMAIN requests
    /\ requests[r].aborted
    /\ requests' = Remove(requests, r)
    /\ Caught(r, AbortError)
    /\ UNCHANGED <<modeVars, bindVars, clockVars, cacheVars, nextRequest, nameSearchController,
                   codeLookupController, timerVars>>

FetchFailed(r) ==
    /\ r \in DOMAIN requests
    /\ ~requests[r].aborted
    /\ requests' = Remove(requests, r)
    /\ LET res == queryAirtableContainsResume(airtableCache, requests[r].key,
                                              requests[r].q, FailedResponse)
       IN /\ res.threw
          /\ airtableCache' = res.cache
          /\ Caught(r, res.error)
    /\ UNCHANGED <<modeVars, bindVars, clockVars, maxCache, touched, nextRequest, nameSearchController,
                   codeLookupController, timerVars>>

FetchOk(r, records) ==
    /\ r \in DOMAIN requests
    /\ ~requests[r].aborted
    /\ requests' = Remove(requests, r)
    /\ LET res == queryAirtableContainsResume(airtableCache, requests[r].key,
                                              requests[r].q, OkResponse(records))
           data == res.data
       IN /\ ~res.threw
          /\ airtableCache' = res.cache
          /\ touched' = Touch(touched, requests[r].key)
          /\ IF requests[r].channel = "nameSearch"
             THEN /\ suggestions' = searchAirtableForAutocomplete(records)
                  /\ Note([Op("NameOk") EXCEPT !.callback = TRUE,
                                                    !.stale = requests[r].superseded,
                                                    !.shown = NameShown(suggestions')])
                  /\ UNCHANGED pageVars
             ELSE /\ SetPage(CodeApply(Page, data))
                  /\ Note([Op("CodeOk") EXCEPT
                                   !.stale = requests[r].superseded,
                                   !.applied = IF Len(records) > 0 THEN records[1].id ELSE Null,
                                   !.threw = CodeThrew(Page, data),
                                   !.notices = CodeApply(Page, data).notices,
                                   !.messages = CodeApply(Page, data).messages,
                                   !.calls = CodeApply(Page, data).calls,
                                   !.shown = CodeShown(Page, data)])
                  /\ UNCHANGED suggestions
    /\ UNCHANGED <<modeVars, bindVars, clockVars, maxCache, nextRequest, nameSearchController,
                   codeLookupController, timerVars>>

(***************************************************************************)
(* Public control surface (window.FTGForm) and the alert cooldown.         *)
(***************************************************************************)
ModeNames == {CodeMode, NameMode}

\* the hide and prevent lists of a mode name (empty for a name MODES lacks)
ConfigOf(mode) ==
    IF mode \in DOMAIN MODES THEN MODES[mode] ELSE [hide |-> {}, prevent |-> {}]

\* setMode(mode): hideElements + preventInteraction of the mode's lists
setMode(mode) ==
    LET config == IF mode \in DOMAIN MODES THEN MODES[mode]
                  ELSE [hide |-> {}, prevent |-> {}]
    IN /\ currentMode' = mode
       /\ hidden' = hideElements(Page, hidden, config.hide)
       /\ SetPage(preventInteraction(Page, config.prevent))

\* the names the README documents for FTGForm.setMode
DocumentedModes == {"Redemption Code Lookup", "Establishment Name Lookup"}

\* the names FTGForm.setMode is called with: the names of MODES, the
\* documented names and another name
ModeArgs == ModeNames \cup DocumentedModes \cup {"Kiosk"}

PublicSetMode(mode) ==
    /\ setMode(mode)
    /\ Note([Op("setMode") EXCEPT
                !.applied = mode,
                !.locks = preventInteraction(Page, ConfigOf(mode).prevent).locks,
                !.stale = (lastOp.op = "setMode" /\ lastOp.applied = mode)])
    /\ UNCHANGED <<bindVars, clockVars, cacheVars, netVars, timerVars, suggestions>>

\* initializeFields(): the map is rebuilt from the groups of the document
\* and setMode(currentMode) is applied to it.  A key bound to a group that
\* was added since the last scan stands for a new element (empty, shown,
\* not locked until the mode is applied); a key no group resolves to has no
\* element.
Scan ==
    LET bound == Rebind(fields, items)
        renewed == {k \in FieldKeys : k \notin bound \/ items[GroupOf(k)] = "fresh"}
        p0 == [Page EXCEPT
                  !.fields = bound,
                  !.value = [k \in InputKeys |-> IF k \in renewed THEN Empty ELSE @[k]],
                  !.selectedIndex = [k \in SelectKeys |-> IF k \in renewed THEN 0 ELSE @[k]],
                  !.locked = @ \ renewed]
        config == ScanConfig(currentMode)
    IN [fields |-> bound,
        items |-> [g \in DOMAIN Groups |->
                      IF items[g] = "fresh" THEN "scanned" ELSE items[g]],
        hidden |-> hideElements(p0, hidden \ renewed, config.hide),
        page |-> preventInteraction(p0, config.prevent)]

initializeFields ==
    /\ fields' = Scan.fields
    /\ items' = Scan.items
    /\ currentMode' = currentMode
    /\ hidden' = Scan.hidden
    /\ SetPage(Scan.page)

\* FTGForm.reinitialize()
PublicReinitialize ==
    /\ initializeFields
    /\ Note([Op("reinitialize") EXCEPT !.applied = currentMode])
    /\ UNCHANGED <<cacheVars, netVars, timerVars, clockVars, suggestions>>

\* a dynamic content update adds a group to the document (a new element)
AddGroup(g) ==
    /\ items[g] = "absent"
    /\ items' = [items EXCEPT ![g] = "fresh"]
    /\ Note(Op("AddGroup"))
    /\ UNCHANGED <<pageVars, modeVars, fields, cacheVars, netVars, timerVars,
                   clockVars, suggestions>>

\* a dynamic content update removes a group from the document
RemoveGroup(g) ==
    /\ items[g] # "absent"
    /\ items' = [items EXCEPT ![g] = "absent"]
    /\ Note(Op("RemoveGroup"))
    /\ UNCHANGED <<pageVars, modeVars, fields, cacheVars, netVars, timerVars,
                   clockVars, suggestions>>

\* FTGForm.reset()
PublicReset ==
    /\ SetPage(clearAndResetForm(Page))
    /\ Note([Op("reset") EXCEPT !.locks = clearAndResetForm(Page).locks])
    /\ UNCHANGED <<modeVars, bindVars, clockVars, cacheVars, netVars, timerVars, suggestions>>

\* the 1200 ms timer set with the blocking notice elapses
AlertCooldown ==
    /\ mismatchAlertDispatched
    /\ mismatchAlertDispatched' = FALSE
    /\ Note(Op("AlertCooldown"))
    /\ UNCHANGED <<value, selectedIndex, locked, lastSelectedEstablishment,
                   submitDisabled, modeVars, bindVars, clockVars, cacheVars, netVars, timerVars, suggestions>>

(***************************************************************************)
(* Direct use of the cache (cacheGet / cacheSet with any key and value).   *)
(***************************************************************************)
CacheKeySet ==
    {<<NameField, ToLowerCase(tAm)>>, <<NameField, ToLowerCase(tAman)>>,
     <<CodeField, cLower>>, <<CodeField, ToLowerCase(cShort)>>}

CacheValueSet == {Answer(l, tAm) : l \in {<<>>, <<R1>>}}

CacheGetOp(key) ==
    /\ LET got == cacheGet(airtableCache, key)
       IN /\ airtableCache' = got.cache
          /\ touched' = IF got.hit THEN Touch(touched, key) ELSE touched
          /\ Note([Op(IF got.hit THEN "cacheGetHit" ELSE "cacheGetMiss")
                           EXCEPT !.cacheRead = TRUE])
    /\ UNCHANGED <<pageVars, modeVars, bindVars, clockVars, maxCache, netVars, timerVars, suggestions>>

CacheSetOp(key, val) ==
    /\ airtableCache' = cacheSet(airtableCache, key, val)
    /\ touched' = Touch(touched, key)
    /\ Note(Op(IF Len(airtableCache') > Len(airtableCache) THEN "cacheSetGrow"
                    ELSE IF CacheHas(airtableCache, key) THEN "cacheSetKnown"
                    ELSE "cacheSetEvict"))
    /\ UNCHANGED <<pageVars, modeVars, bindVars, clockVars, maxCache, netVars, timerVars, suggestions>>

(***************************************************************************)
(* Specifications.                                                         *)
(***************************************************************************)
NameChannel(texts) ==
    \/ \E t \in texts : TypeName(t)
    \/ SourceFire
    \/ NameInputFire
    \/ NameBlur

CodeChannel(texts) ==
    \/ \E t \in texts : TypeCode(t)
    \/ CodeInputFire

\* the ends of a fetch, for a server that answers with one of the lists
NetworkOf(lists) ==
    \/ \E r \in 1..MaxRequests : FetchAborted(r)
    \/ \E r \in 1..MaxRequests : FetchFailed(r)
    \/ \E r \in 1..MaxRequests, l \in lists : FetchOk(r, l)

Network == NetworkOf(RecordLists)

\* the whole controller: both lookup flows and the public control surface
Next ==
    \/ NameChannel(FewNameInputs)
    \/ PickItem(1)
    \/ CodeChannel(FewCodeInputs)
    \/ Network
    \/ PublicReset
    \/ AlertCooldown

Spec == Init /\ [][Next]_vars

\* a name-lookup session
NextName ==
    \/ NameChannel(NameInputs)
    \/ PickItem(1)
    \/ Network
    \/ PublicReset
    \/ AlertCooldown

SpecName == InitSession /\ [][NextName]_vars

\* a code-lookup session
NextCode ==
    \/ CodeChannel(CodeInputs)
    \/ \E t \in CustomInputs : TypeCustom(t)
    \/ Network
    \/ PublicReset
    \/ AlertCooldown

SpecCode == InitSession /\ [][NextCode]_vars

\* the query gateway driven through the name-search source, no item picked
NextQuery ==
    \/ NameChannel(QueryInputs)
    \/ Network

SpecQuery == InitWith((1..MaxCapacity) \cup {MAX_CACHE}, "init") /\ [][NextQuery]_vars

\* the cache alone
NextCache ==
    \/ \E k \in CacheKeySet : CacheGetOp(k)
    \/ \E k \in CacheKeySet, v \in CacheValueSet : CacheSetOp(k, v)

SpecCache == InitWith((1..MaxCapacity) \cup {MAX_CACHE}, "init") /\ [][NextCache]_vars

\* the options a select may hold and the targets the matcher is called with
tddp == <<"d", "d", "p">>
OptionSet ==
    {Placeholder, Opt(tGoldTier, <<"g">>, Empty), Opt(tGold, <<"g", "2">>, Empty),
     Opt(tPaid, <<"d">>, tDDP)}
TargetSet ==
    {Txt(Empty), Txt(tGold), Txt(tddp), Txt(<<"d">>), Txt(tPlat), Lst(tGold)}

RECURSIVE OptionLists(_)
OptionLists(n) ==
    IF n = 0 THEN {<<>>}
    ELSE LET shorter == OptionLists(n - 1)
         IN shorter \cup {Append(l, o) : l \in {x \in shorter : Len(x) = n - 1},
                                           o \in OptionSet}

\* a direct call setSelectValue(select, target); the result depends on the
\* arguments alone, so each call is made once, from the initial state
MatcherCall(options, target, select2, hint) ==
    /\ lastOp.op = "init"
    /\ lastOp' = [op |-> "setSelectValue", options |-> options, target |-> target,
                  select2 |-> select2, hint |-> hint,
                  result |-> setSelectValueOn(options, target, select2, hint)]
    /\ UNCHANGED <<pageVars, modeVars, bindVars, clockVars, cacheVars, netVars, timerVars, suggestions>>

\* the option matcher alone
NextMatcher ==
    \E options \in OptionLists(MaxOptions), target \in TargetSet, select2 \in BOOLEAN,
       hint \in BOOLEAN : MatcherCall(options, target, select2, hint)

SpecMatcher == InitSession /\ [][NextMatcher]_vars

\* the mode machine driven through the public control surface, with the
\* code-lookup flow running
NextMode ==
    \/ \E m \in ModeArgs : PublicSetMode(m)
    \/ PublicReinitialize
    \/ PublicReset
    \/ CodeChannel(FewCodeInputs)
    \/ Network

SpecMode == InitSession /\ [][NextMode]_vars

\* the name typed while both lookup flows run
LookupNames == {tAm}

\* both lookup flows on one page, the name input keeping the focus, with
\* the history kept
NextLookup ==
    \/ \E t \in LookupNames : TypeName(t)
    \/ SourceFire
    \/ NameInputFire
    \/ PickItem(1)
    \/ CodeChannel(FewCodeInputs)
    \/ NetworkOf({<<>>, <<R1>>})

SpecLookup == InitSession /\ [][NextLookup]_vars

\* the groups dynamic content updates add and remove
ScanGroups == {"code", "award", "news", "bare"}

\* rescans of a changing document, with the mode switched and a code lookup
\* running
NextScan ==
    \/ \E g \in ScanGroups : AddGroup(g)
    \/ \E g \in ScanGroups : RemoveGroup(g)
    \/ PublicReinitialize
    \/ \E m \in ModeNames : PublicSetMode(m)
    \/ CodeChannel({cUpper})
    \/ \E r \in 1..MaxRequests : FetchOk(r, <<R1>>)

SpecScan == InitSession /\ [][NextScan]_vars

\* the label texts and data-name attributes a group is scanned with
LabelTexts ==
    {lCode, lName, lCustom, lType, lStatus, lAward, lDuties, lTypeRequired,
     lStatusStar, lLevel, dAward, lDutiesColon, lNews, Empty}
DataNames == {Empty, dAward, lStatus, lNews}

\* one pass of the scan's callback over a group (scan 1), and the pass of a
\* re-scan over the same group (scan 2); the key depends on the group alone,
\* so the first pass is made from the initial state
ResolveGroup(g) ==
    /\ \/ lastOp.op = "init"
       \/ lastOp.op = "initializeFields.item" /\ lastOp.scan = 1 /\ lastOp.group = g
    /\ lastOp' = [op |-> "initializeFields.item", group |-> g,
                  scan |-> IF lastOp.op = "init" THEN 1 ELSE 2,
                  key |-> KeyOf(g)]
    /\ UNCHANGED <<pageVars, modeVars, bindVars, clockVars, cacheVars, netVars, timerVars, suggestions>>

\* the key resolution alone
NextResolve ==
    \E hasLabel \in BOOLEAN, label \in LabelTexts, control \in {"input", "select"},
       dataName \in DataNames : ResolveGroup(Group(hasLabel, label, control, dataName))

SpecResolve == InitSession /\ [][NextResolve]_vars

(***************************************************************************)
(* debounce(fn, delay) on its own, with a clock.  The event loop runs a    *)
(* timer's callback when its delay has elapsed: while a timer is due the   *)
(* clock does not advance and no other event is handled.  The history      *)
(* (lastOp) counts the bursts of calls begun and the runs of fn, and keeps *)
(* the arguments and time of the last call and of the last run.            *)
(***************************************************************************)
MaxTime == 7

\* the delay, in ticks of the clock
DelayTicks == 2

\* the arguments a debounced function is called with
DebounceArgs == {tA, tAm}

Due == debounceTimer.pending /\ now >= debounceTimer.due

debounceKeepFirst(timer, at, args) ==
    IF timer.pending THEN timer
    ELSE [pending |-> TRUE, args |-> args, due |-> at + DelayTicks]

\* clearTimeout(t); t = setTimeout(() => fn.apply(this, args), delay)
debounce(timer, at, args) ==
    [pending |-> TRUE, args |-> args, due |-> at + DelayTicks]

NoCalls ==
    [op |-> "debounce", bursts |-> 0, runs |-> 0, args |-> Empty, at |-> 0,
     ranWith |-> Empty, ranAt |-> 0]

\* the debounced function is called
DebouncedCall(args) ==
    /\ ~Due
    /\ debounceTimer' = debounce(debounceTimer, now, args)
    /\ LET h == IF lastOp.op = "init" THEN NoCalls ELSE lastOp
       IN lastOp' = [h EXCEPT !.op = "call",
                              !.bursts = IF debounceTimer.pending THEN @ ELSE @ + 1,
                              !.args = args,
                              !.at = now]
    /\ UNCHANGED <<pageVars, modeVars, bindVars, cacheVars, netVars, timerVars, now,
                   boot, suggestions>>

\* the timer's callback runs: fn.apply(this, args)
DebouncedRun ==
    /\ Due
    /\ debounceTimer' = NoTimeout
    /\ lastOp' = [lastOp EXCEPT !.op = "fn", !.runs = @ + 1,
                                !.ranWith = debounceTimer.args, !.ranAt = now]
    /\ UNCHANGED <<pageVars, modeVars, bindVars, cacheVars, netVars, timerVars, now,
                   boot, suggestions>>

\* time passes
Tick ==
    /\ ~Due
    /\ now < MaxTime
    /\ now' = now + 1
    /\ UNCHANGED <<pageVars, modeVars, bindVars, cacheVars, netVars, timerVars,
                   debounceTimer, boot, suggestions, lastOp>>

NextDebounce ==
    \/ \E a \in DebounceArgs : DebouncedCall(a)
    \/ DebouncedRun
    \/ Tick

SpecDebounce == InitSession /\ [][NextDebounce]_vars

(***************************************************************************)
(* Start-up: $(document).ready, the autocompleteReady event of the widget  *)
(* library and the fallback timer, with the clock.  The page before the    *)
(* first scan holds the seven field groups and the form, nothing bound,    *)
(* hidden or locked, the submit control enabled.                           *)
(***************************************************************************)
\* the delay of the fallback timer, in ticks of the clock
FallbackTicks == 3

InitBoot ==
    /\ value = [k \in InputKeys |-> Empty]
    /\ selectedIndex = [k \in SelectKeys |-> 0]
    /\ currentMode = InitialMode
    /\ hidden = {}
    /\ locked = {}
    /\ lastSelectedEstablishment = NoSelection
    /\ submitDisabled = FALSE
    /\ mismatchAlertDispatched = FALSE
    /\ airtableCache = <<>>
    /\ maxCache = MAX_CACHE
    /\ requests = <<>>
    /\ nextRequest = 1
    /\ nameSearchController = NoController
    /\ codeLookupController = NoController
    /\ sourceTimer = NoTimer
    /\ nameInputTimer = FALSE
    /\ codeInputTimer = FALSE
    /\ suggestions = <<>>
    /\ items = [g \in DOMAIN Groups |->
                    IF GroupKey[g] \in FieldKeys THEN "original" ELSE "absent"]
    /\ fields = {}
    /\ now = 0
    /\ debounceTimer = NoTimeout
    /\ boot \in {NotBooted, [NotBooted EXCEPT !.Autocomplete = TRUE]}
    /\ touched = <<>>
    /\ lastOp = Op("init")

\* initializeSystem(): the scan, one more 'input' handler on the code input
\* (addRedemptionCodeListener), one more 'submit' handler on the form
\* (handleFormSubmission), the submit control set from the selection
initializeSystem(b) ==
    /\ fields' = Scan.fields
    /\ items' = Scan.items
    /\ currentMode' = currentMode
    /\ hidden' = Scan.hidden
    /\ SetPage(updateFormSubmitState(Scan.page))
    /\ boot' = [b EXCEPT !.runs = @ + 1, !.inputHandlers = @ + 1,
                         !.submitHandlers = @ + 1]

\* the callback of $(document).ready runs
DocumentReady ==
    /\ ~boot.ready
    /\ IF boot.Autocomplete
       THEN initializeSystem([boot EXCEPT !.ready = TRUE])
       ELSE /\ boot' = [boot EXCEPT
                           !.ready = TRUE,
                           !.listening = TRUE,
                           !.fallback = [pending |-> TRUE, args |-> Empty,
                                         due |-> now + FallbackTicks]]
            /\ UNCHANGED <<pageVars, modeVars, bindVars>>
    /\ Note(Op("ready"))
    /\ UNCHANGED <<cacheVars, netVars, timerVars, now, debounceTimer, suggestions>>

\* the widget library's script runs: window.Autocomplete is defined
LibraryLoads ==
    /\ ~boot.Autocomplete
    /\ boot' = [boot EXCEPT !.Autocomplete = TRUE]
    /\ Note(Op("library"))
    /\ UNCHANGED <<pageVars, modeVars, bindVars, cacheVars, netVars, timerVars, now,
                   debounceTimer, suggestions>>

FallbackDue == boot.fallback.pending /\ now >= boot.fallback.due

\* the library announces itself once: the autocompleteReady event is
\* dispatched on window
AutocompleteReady ==
    /\ boot.Autocomplete
    /\ ~boot.announced
    /\ ~FallbackDue
    /\ IF boot.listening
       THEN initializeSystem([boot EXCEPT !.announced = TRUE])
       ELSE /\ boot' = [boot EXCEPT !.announced = TRUE]
            /\ UNCHANGED <<pageVars, modeVars, bindVars>>
    /\ Note(Op("autocompleteReady"))
    /\ UNCHANGED <<cacheVars, netVars, timerVars, now, debounceTimer, suggestions>>

\* the callback of the fallback timer runs
FallbackFire ==
    /\ FallbackDue
    /\ IF boot.Autocomplete
       THEN initializeSystem([boot EXCEPT !.fallback = NoTimeout])
       ELSE /\ boot' = [boot EXCEPT !.fallback = NoTimeout]
            /\ UNCHANGED <<pageVars, modeVars, bindVars>>
    /\ Note(Op("fallback"))
    /\ UNCHANGED <<cacheVars, netVars, timerVars, now, debounceTimer, suggestions>>

\* time passes during start-up
BootTick ==
    /\ ~FallbackDue
    /\ now < MaxTime
    /\ now' = now + 1
    /\ UNCHANGED <<pageVars, modeVars, bindVars, cacheVars, netVars, timerVars,
                   debounceTimer, boot, suggestions, lastOp>>

NextBoot ==
    \/ DocumentReady
    \/ LibraryLoads
    \/ AutocompleteReady
    \/ FallbackFire
    \/ BootTick

SpecBoot == InitBoot /\ [][NextBoot]_vars

(***************************************************************************)
(* Properties.                                                             *)
(***************************************************************************)
OfficialName == value["officialEstablishmentName"]

\* the step is a run of the debounced source with a query of two or more
\* characters
SourceRuns == sourceTimer.pending /\ ~sourceTimer'.pending /\ Len(sourceTimer.query) >= 2

Normal(t) == ToLowerCase(Trim(t))

\* C8: strict LRU.  Under every capacity and after every sequence of
\* cacheGet and cacheSet, the cache holds exactly the most recently touched
\* keys (a cacheGet hit and a cacheSet are touches), at most maxCache of
\* them, least recently touched first.
C8_StrictLRU ==
    LET n == Len(touched)
        k == IF n < maxCache THEN n ELSE maxCache
    IN /\ Len(airtableCache) <= maxCache
       /\ CacheKeys(airtableCache) = SubSeq(touched, n - k + 1, n)

\* an eviction has just happened after a hit had reordered the entries
C8_Witness ==
    /\ lastOp.op = "cacheSetEvict"
    /\ Len(airtableCache) = maxCache
    /\ maxCache > 1
    /\ Len(touched) > maxCache

\* C9: memoization.  When the source runs with a query whose trimmed,
\* lower-cased text equals that of an entry still in the cache, no fetch is
\* issued and the callback receives the stored answer.
C9_Memoized ==
    [][\A i \in 1..Len(airtableCache) :
          (/\ SourceRuns
           /\ airtableCache[i].key[1] = NameField
           /\ Normal(airtableCache[i].key[2]) = Normal(sourceTimer.query))
          => /\ nextRequest' = nextRequest
             /\ DOMAIN requests' \subseteq DOMAIN requests
             /\ suggestions' =
                    searchAirtableForAutocomplete(airtableCache[i].value.records)]_vars

\* the source has just been answered from the cache for a query that differs
\* in case and whitespace from the one the answer was fetched for
C9_Witness ==
    /\ lastOp.op = "SourceHit"
    /\ OfficialName = taMsp
    /\ \E i \in 1..Len(airtableCache) :
          airtableCache[i].value.q = tAm /\ airtableCache[i].value.records # <<>>
    /\ suggestions # <<>>

\* C10: a query that is empty after trimming gives the empty record list,
\* issues no fetch and neither reads nor changes the cache.
C10_BlankQuery ==
    [][(SourceRuns /\ Trim(sourceTimer.query) = Empty)
          => /\ suggestions' = <<>>
             /\ nextRequest' = nextRequest
             /\ requests' = Outdate(Supersede(Abort(requests, nameSearchController),
                                             "nameSearch"), "nameSearch")
             /\ airtableCache' = airtableCache
             /\ ~lastOp'.cacheRead /\ ~lastOp'.fetched]_vars

\* a blank query has just been answered while the cache held entries
C10_Witness ==
    /\ lastOp.op = "SourceBlank"
    /\ OfficialName = tBlank
    /\ Len(airtableCache) > 0

\* the fetches of a channel that resolve in this step
Resolving(channel) ==
    {r \in DOMAIN requests : requests[r].channel = channel /\ r \notin DOMAIN requests'}

InFlight(channel) ==
    {r \in DOMAIN requests : requests[r].channel = channel /\ ~requests[r].aborted}

NoTimerPending == ~sourceTimer.pending /\ ~nameInputTimer /\ ~codeInputTimer

\* C1: when a name search is superseded by a later run of the source (both
\* queries of two or more characters) before it resolves, its resolution,
\* whenever it arrives, invokes no callback and changes no field value.
C1_StaleNameSearch ==
    [][\A r \in Resolving("nameSearch") :
          requests[r].superseded
          => /\ ~lastOp'.callback
             /\ suggestions' = suggestions
             /\ value' = value
             /\ selectedIndex' = selectedIndex]_vars

\* a superseded name search has just resolved, after the later search had
\* already delivered its suggestions
C1_Witness ==
    /\ lastOp.op = "FetchAborted"
    /\ lastOp.stale
    /\ suggestions # <<>>
    /\ nameSearchController \notin DOMAIN requests

C3_OneLiveRequest ==
    /\ Cardinality(InFlight("nameSearch")) <= 1
    /\ Cardinality(InFlight("codeLookup")) <= 1

\* a channel with two fetches in flight: the earlier aborted, the later not
C3_Witness ==
    \E r1, r2 \in DOMAIN requests :
        /\ r1 < r2
        /\ requests[r1].channel = requests[r2].channel
        /\ requests[r1].aborted
        /\ ~requests[r2].aborted

\* C4: between handlers, the submit control is enabled exactly when the last
\* selection has an identity.
C4_SubmitDerived ==
    (~submitDisabled) <=> (lastSelectedEstablishment.id # Null)

\* a selection is confirmed and the submit control is enabled
C4_Witness ==
    /\ ~submitDisabled
    /\ lastSelectedEstablishment.id # Null
    /\ OfficialName = lastSelectedEstablishment.name

\* C5: between handlers and with no debounce timer pending, a last selection
\* with a name implies that the official-name input shows that name.
C5_NameShown ==
    (NoTimerPending /\ lastSelectedEstablishment.name # Empty)
        => OfficialName = lastSelectedEstablishment.name

NameListenerRan == lastOp'.op \in {"NameInputFire", "NameBlur"}

Invalidated ==
    /\ lastSelectedEstablishment' = NoSelection
    /\ value'["customEstablishmentName"] = Empty
    /\ \A k \in SelectKeys : selectedIndex'[k] = 0
    /\ submitDisabled'
    /\ value'["officialEstablishmentName"] = OfficialName
    /\ value'["redemptionCode"] = value["redemptionCode"]

NameFlowOps ==
    {"TypeName", "SourceShort", "SourceFetch", "SourceHit", "SourceBlank",
     "NameInputFire", "NameBlur", "FetchAborted", "NameFailed", "NameOk"}

\* C6 as amended: with a selection named n in force, a run of the name
\* input's debounced listener or blur listener while the trimmed text of the
\* input differs from n clears the selection, empties every field but the
\* official-name and code inputs and disables submit; typing, searching and
\* leaving the field never enable submit again.
C6_Invalidation ==
    [][/\ (/\ NameListenerRan
           /\ lastSelectedEstablishment.name # Empty
           /\ Trim(OfficialName) # lastSelectedEstablishment.name)
          => Invalidated
       /\ (submitDisabled /\ lastOp'.op \in NameFlowOps) => submitDisabled']_vars

\* C6 as stated: any text different from n invalidates
C6_AsStated ==
    [][(/\ NameListenerRan
        /\ lastSelectedEstablishment.name # Empty
        /\ OfficialName # lastSelectedEstablishment.name)
          => Invalidated]_vars

\* a listener has just invalidated a selection over a different, non-empty text
C6_Witness ==
    /\ lastOp.op \in {"NameInputFire", "NameBlur"}
    /\ lastOp.hadSelection
    /\ lastSelectedEstablishment = NoSelection
    /\ submitDisabled
    /\ OfficialName = tAm

RecordName(id) == (CHOOSE r \in Records : r.id = id).name.text

\* C7: after an autocomplete pick or a code lookup that returned a record,
\* the last selection holds that record's identity and name and submit is
\* enabled.
C7_Confirmed ==
    (lastOp.op \in {"PickItem", "CodeOk", "CodeHit"} /\ lastOp.applied # Null)
        => /\ lastSelectedEstablishment.id = lastOp.applied
           /\ lastSelectedEstablishment.name = RecordName(lastOp.applied)
           /\ ~submitDisabled

\* C11: a response with a non-success status makes the query raise an error
\* that the callers' abort test does not take for a cancellation, and leaves
\* the cache as it was; a later run of the source with the same query, still
\* absent from the cache, issues a fetch again.
C11_FailureNotCached ==
    [][/\ lastOp'.op \in {"NameFailed", "CodeFailed"}
          => /\ airtableCache' = airtableCache
             /\ touched' = touched
             /\ ~IsAbortError(HttpError)
             /\ lastOp'.op = "NameFailed" => (lastOp'.callback /\ suggestions' = <<>>)
       /\ (/\ SourceRuns
           /\ Trim(sourceTimer.query) # Empty
           /\ ~CacheHas(airtableCache, <<NameField, Normal(sourceTimer.query)>>))
          => /\ lastOp'.fetched
             /\ nextRequest' = nextRequest + 1
             /\ nextRequest \in DOMAIN requests']_vars

\* the second fetch for a query has just been issued: the first one failed
\* (it is no longer in flight and left nothing in the cache)
C11_Witness ==
    /\ lastOp.op = "SourceFetch"
    /\ nextRequest = 3
    /\ DOMAIN requests = {2}
    /\ airtableCache = <<>>
    /\ touched = <<>>

\* the step is a run of the debounced code handler
CodeHandlerRuns == codeInputTimer /\ ~codeInputTimer'

\* the fetches issued in this step
Issued == DOMAIN requests' \ DOMAIN requests

\* C12 as amended: a run of the code handler over a trimmed code whose
\* length is not 8 issues no fetch; a run over a code of exactly 8
\* characters issues exactly one fetch, for that code, unless the answer for
\* the lower-cased code is in the cache, and then it issues none.
C12_CallsPerRun ==
    [][CodeHandlerRuns =>
        LET code == Trim(value["redemptionCode"])
        IN IF Len(code) = 8 /\ ~CacheHas(airtableCache, <<CodeField, ToLowerCase(code)>>)
           THEN /\ Issued = {nextRequest}
                /\ nextRequest' = nextRequest + 1
                /\ requests'[nextRequest].channel = "codeLookup"
                /\ requests'[nextRequest].q = code
           ELSE /\ Issued = {}
                /\ nextRequest' = nextRequest]_vars

\* C12 as stated: every run over a code of 8 characters issues one fetch
C12_AsStated ==
    [][CodeHandlerRuns =>
        LET code == Trim(value["redemptionCode"])
        IN IF Len(code) = 8
           THEN Issued = {nextRequest} /\ nextRequest' = nextRequest + 1
           ELSE Issued = {} /\ nextRequest' = nextRequest]_vars

\* the handler has just applied the cached answer for a code of 8 characters
C12_Witness ==
    /\ lastOp.op = "CodeHit"
    /\ Len(Trim(value["redemptionCode"])) = 8
    /\ lastOp.applied # Null
    /\ codeLookupController = NoController

\* C13: after setMode(m) a bound field is hidden exactly when MODES[m].hide
\* names it, whatever modes were active before.
C13_VisibilityByMode ==
    lastOp.op = "setMode" => hidden = ConfigOf(currentMode).hide \cap FieldKeys

\* C14: after setMode(m) a bound field is locked exactly when
\* MODES[m].prevent names it, whatever modes were active before.
C14_LockByMode ==
    lastOp.op = "setMode" => locked = ConfigOf(currentMode).prevent \cap FieldKeys

\* C15: setMode(m) right after setMode(m) leaves currentMode and every
\* field's hidden and locked state as the first call left them.
C15_Idempotent ==
    [][(/\ lastOp.op = "setMode"
        /\ lastOp'.op = "setMode"
        /\ lastOp'.applied = lastOp.applied)
          => /\ currentMode' = currentMode
             /\ hidden' = hidden
             /\ locked' = locked]_vars

\* setMode('Establishment Name Lookup') has just been called twice in a row
C15_Witness ==
    /\ lastOp.op = "setMode"
    /\ lastOp.stale
    /\ currentMode = NameMode
    /\ "redemptionCode" \in hidden

\* C16: currentMode is always a key of MODES.
C16_ModeEnumerated == currentMode \in DOMAIN MODES

\* C17 as amended: the mode in force until the first call of setMode is
\* 'Partner Early-Access Code Lookup': after initialization the code field
\* is shown and the official-name field is locked, and only setMode changes
\* the mode.
C17_InitialCodeMode ==
    /\ currentMode = CodeMode
    /\ "redemptionCode" \notin hidden
    /\ "officialEstablishmentName" \in locked
    /\ [][lastOp'.op # "setMode" => currentMode' = currentMode]_vars

\* C17 as stated: the mode after initialization is 'Establishment Name
\* Lookup', the code field hidden and the official-name field not locked
C17_AsStated ==
    lastOp.op = "init"
        => /\ currentMode = NameMode
           /\ "redemptionCode" \in hidden
           /\ "officialEstablishmentName" \notin locked

\* a code has been typed into the visible code field while the initial mode
\* was still in force
C17_Witness ==
    /\ lastOp.op = "TypeCode"
    /\ currentMode = CodeMode
    /\ hidden = {}
    /\ "officialEstablishmentName" \in locked
    /\ value["redemptionCode"] # Empty

\* an option's visible text, value or data-name equals the target or
\* contains it, letter case apart
Candidates(o) == {Trim(o.text), o.value, o.dataName}
EqualsOrContains(o, t) ==
    \E v \in Candidates(o) :
        ToLowerCase(v) = ToLowerCase(t) \/ Includes(ToLowerCase(v), ToLowerCase(t))

MatcherCalled == lastOp.op = "setSelectValue"

\* C18 as amended: for a non-empty target text setSelectValue returns true
\* exactly when some option's text, value or data-name equals or contains
\* the target, letter case apart, and it then selects the first such option;
\* for the empty target it returns false and selects nothing.
C18_MatchIff ==
    (MatcherCalled /\ ~lastOp.target.arr) =>
        LET t == lastOp.target.text
            hits == {i \in 1..Len(lastOp.options) : EqualsOrContains(lastOp.options[i], t)}
        IN IF t = Empty
           THEN ~lastOp.result.returned /\ lastOp.result.assigned = 0
           ELSE /\ lastOp.result.returned <=> hits # {}
                /\ lastOp.result.returned =>
                      /\ lastOp.result.assigned \in hits
                      /\ \A j \in hits : lastOp.result.assigned <= j

\* C18 as stated: for every target text, the empty one included
C18_AsStated ==
    (MatcherCalled /\ ~lastOp.target.arr) =>
        LET t == lastOp.target.text
            hits == {i \in 1..Len(lastOp.options) : EqualsOrContains(lastOp.options[i], t)}
        IN /\ lastOp.result.returned <=> hits # {}
           /\ lastOp.result.returned =>
                 /\ lastOp.result.assigned \in hits
                 /\ \A j \in hits : lastOp.result.assigned <= j

\* two options match 'Gold' and the first of them, 'Gold Tier', which only
\* contains it, was selected
C18_Witness ==
    /\ MatcherCalled
    /\ lastOp.target = Txt(tGold)
    /\ Len(lastOp.options) = 3
    /\ lastOp.options[2].text = tGoldTier
    /\ lastOp.options[3].text = tGold
    /\ lastOp.result.returned
    /\ lastOp.result.assigned = 2

\* C19: on a match setSelectValue selects the option, emits exactly one
\* change notification and no other, and leaves no mismatch indicator on
\* the field.
C19_OneChange ==
    (MatcherCalled /\ lastOp.result.returned)
        => /\ lastOp.result.assigned > 0
           /\ Len(lastOp.result.events) = 1
           /\ \A i \in 1..Len(lastOp.result.events) : lastOp.result.events[i].type = "change"
           /\ ~lastOp.result.hint

\* the record an operation applied
RecordOf(id) == CHOOSE r \in Records : r.id = id

\* applying the record hits an option mismatch: a text value no option of
\* its select equals or contains
Mismatches(r) ==
    \E k \in SelectKeys :
        /\ Truthy(r[k]) /\ ~r[k].arr
        /\ MatchIndex(SelectOptions[k], ToLowerCase(r[k].text)) = 0

\* applying the record raises: one of its values is a list
Raises(r) == \E k \in SelectKeys : Truthy(r[k]) /\ r[k].arr

\* C20 as amended: when an autocomplete pick applies a record none of whose
\* values mismatches or raises, each select whose attribute is non-empty
\* shows the option the matcher finds for it and each select whose
\* attribute is empty or absent keeps its value; when a value mismatches,
\* the whole form is reset and the selects of empty attributes end cleared.
C20_Frame ==
    [][lastOp'.op = "PickItem" =>
        LET r == RecordOf(lastOp'.applied)
        IN \A k \in SelectKeys :
            IF Raises(r) THEN selectedIndex'[k] = selectedIndex[k]
            ELSE IF Mismatches(r) THEN ~Truthy(r[k]) => selectedIndex'[k] = 0
            ELSE IF Truthy(r[k])
                 THEN selectedIndex'[k] =
                          MatchIndex(SelectOptions[k], ToLowerCase(r[k].text)) - 1
                 ELSE selectedIndex'[k] = selectedIndex[k]]_vars

\* C20 as stated: a select whose attribute is empty or absent keeps its
\* value whenever a record is applied
C20_AsStated ==
    [][lastOp'.op = "PickItem" =>
        LET r == RecordOf(lastOp'.applied)
        IN \A k \in SelectKeys :
            ~Truthy(r[k]) => selectedIndex'[k] = selectedIndex[k]]_vars

\* record rec1, which has no duties-and-taxes value, has just been applied
\* over a duties-and-taxes select that held a value, and the select kept it
C20_Witness ==
    /\ lastOp.op = "PickItem"
    /\ lastOp.applied = "rec1"
    /\ selectedIndex["dutiesAndTaxes"] = 1
    /\ selectedIndex["awardLevel"] = 1
    /\ selectedIndex["partnerStatus"] = 1

\* the operations that apply a record to the form
ApplyOps == {"PickItem", "CodeOk", "CodeHit"}

\* the calls of setSelectValue made while a record is applied that find no
\* option: the first pass tries all four selects, the second pass tries
\* partner status, award level and duties and taxes again
MismatchCount(r) ==
    Cardinality({c \in SelectKeys \X {1, 2} :
        /\ c[2] = 2 => c[1] # "establishmentType"
        /\ Truthy(r[c[1]]) /\ ~r[c[1]].arr
        /\ MatchIndex(SelectOptions[c[1]], ToLowerCase(r[c[1]].text)) = 0})

ClearedDefault ==
    /\ \A k \in InputKeys : value[k] = Empty
    /\ \A k \in SelectKeys : selectedIndex[k] = 0
    /\ ConfigOf(currentMode).prevent \cap FieldKeys \subseteq locked

\* C22: when applying a record has hit an option mismatch, the form is in
\* its cleared, locked default state once the apply has finished.
C22_ClearedAfterMismatch ==
    (lastOp.op \in ApplyOps /\ lastOp.applied # Null /\ lastOp.messages > 0)
        => ClearedDefault

\* C23: when the record applied by an autocomplete pick or a code lookup has
\* hit an option mismatch, the interaction ends with no confirmed selection
\* and with submit disabled.
C23_MismatchTerminal ==
    (lastOp.op \in ApplyOps /\ lastOp.applied # Null /\ lastOp.messages > 0)
        => /\ lastSelectedEstablishment.id = Null
           /\ submitDisabled

\* C24: once a record with a name whose values find their options has been
\* applied, the official-name and custom-name inputs both hold that name;
\* typing into the custom-name input afterwards changes that input alone.
C24_NameInBoth ==
    [][/\ (/\ lastOp'.op \in ApplyOps
           /\ lastOp'.applied # Null
           /\ Truthy(RecordOf(lastOp'.applied).name)
           /\ ~Mismatches(RecordOf(lastOp'.applied)))
          => /\ value'["officialEstablishmentName"] = RecordName(lastOp'.applied)
             /\ value'["customEstablishmentName"] = RecordName(lastOp'.applied)
       /\ lastOp'.op = "TypeCustom"
          => /\ value'["officialEstablishmentName"] = OfficialName
             /\ lastSelectedEstablishment' = lastSelectedEstablishment
             /\ submitDisabled' = submitDisabled]_vars

\* the step settles a fetch whose signal had been aborted
Cancelled == \E r \in DOMAIN requests \ DOMAIN requests' : requests[r].aborted

\* C25: when a cancelled request ends, nothing is surfaced: no inline
\* message is shown, the widget gets no list, no field, selection or submit
\* state changes and no notice is raised.
C25_CancelSilent ==
    [][Cancelled =>
        /\ lastOp'.shown = {}
        /\ lastOp'.notices = 0
        /\ ~lastOp'.callback
        /\ suggestions' = suggestions
        /\ value' = value
        /\ selectedIndex' = selectedIndex
        /\ lastSelectedEstablishment' = lastSelectedEstablishment
        /\ submitDisabled' = submitDisabled
        /\ mismatchAlertDispatched' = mismatchAlertDispatched]_vars

\* a cancelled code lookup has just ended while a record picked from the
\* name search is the confirmed selection
C25_Witness ==
    /\ lastOp.op = "FetchAborted"
    /\ lastOp.stale
    /\ lastSelectedEstablishment.id # Null
    /\ ~submitDisabled

\* the step is the catch handler of a channel running for a failed request
Failed == lastOp'.op \in {"NameFailed", "CodeFailed"}

\* the input whose handler issued the failed request
TriggeringField ==
    IF lastOp'.op = "NameFailed" THEN "officialEstablishmentName" ELSE "redemptionCode"

\* C26: when a request fails with a non-success response, on either
\* channel, the inline error is shown under the triggering field, the
\* dependent fields are cleared, the selection is forgotten, submit is
\* disabled and the cache is left as it was.
C26_TransportFailure ==
    [][Failed =>
        /\ Msg("error", TriggeringField) \in lastOp'.shown
        /\ value'["customEstablishmentName"] = Empty
        /\ \A k \in SelectKeys : selectedIndex'[k] = 0
        /\ lastSelectedEstablishment' = NoSelection
        /\ submitDisabled'
        /\ airtableCache' = airtableCache]_vars

\* C27: a run of the code handler over a trimmed code whose length is not 8,
\* the empty code included, shows the length message under the code input,
\* leaves the code as typed, empties every other field, forgets the
\* selection, disables submit and issues no fetch; a run over a code of 8
\* characters looks it up, whatever the runs before it did.
C27_LengthValidation ==
    [][CodeHandlerRuns =>
        LET code == Trim(value["redemptionCode"])
        IN IF Len(code) # 8
           THEN /\ lastOp'.op = "CodeLength"
                /\ lastOp'.shown = {Msg("length", "redemptionCode")}
                /\ value'["redemptionCode"] = value["redemptionCode"]
                /\ \A k \in InputKeys \ {"redemptionCode"} : value'[k] = Empty
                /\ \A k \in SelectKeys : selectedIndex'[k] = 0
                /\ lastSelectedEstablishment' = NoSelection
                /\ submitDisabled'
                /\ Issued = {}
           ELSE /\ lastOp'.op \in {"CodeFetch", "CodeHit"}
                /\ Msg("length", "redemptionCode") \notin lastOp'.shown]_vars

\* the handler has just run over a code of 3 characters while a record was
\* the confirmed selection: the form is empty but for the code
C27_Witness ==
    /\ lastOp.op = "CodeLength"
    /\ lastOp.hadSelection
    /\ value["redemptionCode"] = cShort
    /\ value["officialEstablishmentName"] = Empty
    /\ lastSelectedEstablishment = NoSelection
    /\ submitDisabled

\* the step ends a code lookup with an answer of zero records, from the
\* server or from the cache
NoRecordFound == lastOp'.op \in {"CodeOk", "CodeHit"} /\ lastOp'.applied = Null

\* C28: when the lookup of a code of 8 characters returns zero records, the
\* no-results message is shown under the code input, the code is kept, the
\* official-name and custom-name inputs and the four selects are empty, the
\* selection is unset and submit is disabled.
C28_NoRecord ==
    [][NoRecordFound =>
        /\ lastOp'.shown = {Msg("noResults", "redemptionCode")}
        /\ value'["redemptionCode"] = value["redemptionCode"]
        /\ value'["officialEstablishmentName"] = Empty
        /\ value'["customEstablishmentName"] = Empty
        /\ \A k \in SelectKeys : selectedIndex'[k] = 0
        /\ lastSelectedEstablishment' = NoSelection
        /\ submitDisabled']_vars

\* the step is a scan (initializeFields run through FTGForm.reinitialize)
Scanned == lastOp'.op = "reinitialize"

\* the field keys the scan binds to an element it had not bound before
NewlyBound == {k \in fields' : k \notin fields \/ items[GroupOf(k)] = "fresh"}

\* C29: a scan leaves currentMode as it was and applies it to the rebuilt
\* map: every field the scan binds anew that the mode hides is hidden and
\* every one the mode locks is locked.
C29_ScanReappliesMode ==
    [][Scanned =>
        /\ currentMode' = currentMode
        /\ NewlyBound \cap ConfigOf(currentMode).hide \subseteq hidden'
        /\ NewlyBound \cap ConfigOf(currentMode).prevent \subseteq locked']_vars

\* in the name-lookup mode a scan has just bound a code group and an award
\* level group added since the scan before: the first is hidden, the second
\* locked
C29_Witness ==
    /\ lastOp.op = "reinitialize"
    /\ currentMode = NameMode
    /\ items["code"] = "scanned"
    /\ items["award"] = "scanned"
    /\ "redemptionCode" \in hidden
    /\ "awardLevel" \in locked

\* the field keys some group now in the document resolves to
KeysInDocument ==
    {k \in FieldKeys : \E g \in DOMAIN Groups : items[g] # "absent" /\ GroupKey[g] = k}

\* C30: after a scan, whenever it runs, the map binds exactly the keys the
\* groups now in the document resolve to: no binding of an earlier scan is
\* left and a group that resolves to no key adds none.
C30_ScanReplaces ==
    [][Scanned =>
        /\ fields' = KeysInDocument
        /\ Unmapped \notin fields'
        /\ \A g \in DOMAIN Groups : items'[g] # "fresh"]_vars

\* a scan has just run while a code lookup was in flight, over a document
\* from which the award-level group had been removed and to which a group
\* of another form and a group without label had been added: the binding of
\* the award level is gone
C30_Witness ==
    /\ lastOp.op = "reinitialize"
    /\ DOMAIN requests # {}
    /\ items["award"] = "absent"
    /\ items["news"] = "scanned"
    /\ items["bare"] = "scanned"
    /\ fields = FieldKeys \ {"awardLevel"}

\* a pass of the scan over a group has just resolved its key
GroupResolved == lastOp.op = "initializeFields.item"

\* the table entries whose label is the text t
ExactEntries(t) == {e \in DOMAIN FIELD_LABEL_TO_KEY : FIELD_LABEL_TO_KEY[e][1] = t}

\* the table entries whose label, letter case apart, the text t begins with
PrefixEntries(t) ==
    {e \in DOMAIN FIELD_LABEL_TO_KEY :
        LET l == ToLowerCase(FIELD_LABEL_TO_KEY[e][1])
        IN Len(l) <= Len(t) /\ \A i \in 1..Len(l) : ToLowerCase(t)[i] = l[i]}

\* the table entries whose label, letter case apart, is the text t
NamedEntries(t) ==
    {e \in DOMAIN FIELD_LABEL_TO_KEY :
        ToLowerCase(FIELD_LABEL_TO_KEY[e][1]) = ToLowerCase(t)}

Debounced == lastOp.op \in {"call", "fn"}

\* C32: each burst of calls (every call made while the timer of the call
\* before is pending) runs the wrapped function exactly once: it has run
\* once per burst that is over and not yet for the burst in progress; it
\* runs DelayTicks after the last call of the burst, with that call's
\* arguments; every call sets the timer anew, DelayTicks from the call.
C32_Debounce ==
    /\ [](Debounced =>
            /\ lastOp.runs = IF debounceTimer.pending THEN lastOp.bursts - 1
                             ELSE lastOp.bursts
            /\ debounceTimer.pending => now <= debounceTimer.due)
    /\ [][/\ (lastOp'.op = "call" /\ lastOp' # lastOp =>
                  /\ debounceTimer'.pending
                  /\ debounceTimer'.due = now + DelayTicks
                  /\ lastOp'.runs = IF lastOp.op = "init" THEN 0 ELSE lastOp.runs)
          /\ (Debounced /\ lastOp'.runs # lastOp.runs =>
                  /\ lastOp'.runs = lastOp.runs + 1
                  /\ lastOp'.ranWith = lastOp.args
                  /\ now = lastOp.at + DelayTicks)]_vars

\* a burst of calls, the last one a tick after the one before and with
\* other arguments, has run the function once, with the last arguments,
\* DelayTicks after the last call; a second burst has begun
C32_Witness ==
    /\ Debounced
    /\ lastOp.bursts = 2
    /\ lastOp.runs = 1
    /\ lastOp.ranWith = tAm
    /\ lastOp.ranAt = 1 + DelayTicks
    /\ debounceTimer.pending
    /\ debounceTimer.args = tA

\* every bound field is empty: inputs without text, selects on their first
\* option
BoundFieldsEmpty ==
    /\ \A k \in InputKeys \cap fields : value[k] = Empty
    /\ \A k \in SelectKeys \cap fields : selectedIndex[k] = 0

\* C33: after FTGForm.reset every bound field is empty and the fields the
\* reset has locked are exactly the bound fields of the lock list the
\* configuration gives for the current mode, whatever the current mode is.
C33_ResetRelocks ==
    lastOp.op = "reset" =>
        /\ BoundFieldsEmpty
        /\ lastOp.locks = ConfigOf(currentMode).prevent \cap fields

\* the configuration the documentation gives each documented name: the
\* code-lookup mode hides nothing and locks the four selects and the
\* official name, the name-lookup mode is the one MODES configures
DocumentedConfig(mode) ==
    IF mode = "Redemption Code Lookup"
    THEN [hide |-> {},
          prevent |-> {"establishmentType", "partnerStatus", "awardLevel",
                       "dutiesAndTaxes", "officialEstablishmentName"}]
    ELSE MODES[NameMode]

\* C34: after FTGForm.setMode with a documented name that mode is the
\* current one, the bound fields of its hide list are hidden and the call
\* has locked exactly the bound fields of its lock list.
C34_DocumentedModes ==
    lastOp.op = "setMode" /\ lastOp.applied \in DocumentedModes =>
        /\ currentMode = lastOp.applied
        /\ DocumentedConfig(currentMode).hide \cap fields \subseteq hidden
        /\ lastOp.locks = DocumentedConfig(currentMode).prevent \cap fields

\* the step applies the answer of the code lookup r: the record is written
\* into the fields and confirmed as the selection
CodeResultApplied(r) ==
    /\ r \in DOMAIN requests
    /\ r \notin DOMAIN requests'
    /\ requests[r].channel = "codeLookup"
    /\ lastOp'.op = "CodeOk"
    /\ lastOp'.applied # Null
    /\ ~lastOp'.threw
    /\ lastSelectedEstablishment'.id = lastOp'.applied

\* C35: when the answer of a code lookup is applied, the trimmed text of the
\* code input is the code the lookup asked for, also when the input was
\* edited while the lookup was in flight and the debounced handler has not
\* run yet.
C35_AppliedForCurrentCode ==
    [][\A r \in 1..MaxRequests :
          CodeResultApplied(r) => Trim(value["redemptionCode"]) = requests[r].q]_vars

\* the step hands the widget callback the answer of the name search r
NameResultDelivered(r) ==
    /\ r \in DOMAIN requests
    /\ r \notin DOMAIN requests'
    /\ requests[r].channel = "nameSearch"
    /\ lastOp'.op = "NameOk"
    /\ lastOp'.callback

\* C36: the answer the widget callback is given comes from the most recent
\* run of the source: once the source has run again, be it with a query of
\* fewer than 2 characters, no callback delivers the answer of a search
\* issued by an earlier run.
C36_CallbackOfLastSource ==
    [][\A r \in 1..MaxRequests :
          NameResultDelivered(r) => ~requests[r].outdated]_vars

\* the step is a run of the code handler that the gateway answers from the
\* cache
CodeAnsweredFromCache ==
    /\ codeInputTimer
    /\ ~codeInputTimer'
    /\ lastOp'.op = "CodeHit"

\* C37: the answer the gateway returns for a code is one the remote produced
\* for that very text: an answer the cache returns to the code handler was
\* stored for the code now in the input, letter case included.
C37_SameCodeText ==
    [][CodeAnsweredFromCache =>
          LET code == Trim(value["redemptionCode"])
              returned == airtableCache'[Len(airtableCache')]
          IN /\ returned.key[1] = CodeField
             /\ returned.value.q = code]_vars

\* the number of times the option matcher was run on select k
MatcherRuns(calls, k) == Cardinality({i \in 1..Len(calls) : calls[i] = k})

\* the selects for whose attribute the record has a text no option matches
MismatchingSelects(r) ==
    {k \in SelectKeys :
        /\ Truthy(r[k]) /\ ~r[k].arr
        /\ MatchIndex(SelectOptions[k], ToLowerCase(r[k].text)) = 0}

\* C38: while one record is applied the option matcher runs at most once on
\* each select, so that a select is notified of at most one change and the
\* form is reset at most once for each select whose value finds no option.
C38_OncePerSelect ==
    [][(lastOp'.op \in ApplyOps /\ lastOp'.applied # Null) =>
          LET r == RecordOf(lastOp'.applied)
          IN /\ \A k \in SelectKeys : MatcherRuns(lastOp'.calls, k) <= 1
             /\ ~Raises(r) =>
                   lastOp'.messages <= Cardinality(MismatchingSelects(r))]_vars

\* C39: however the document's readiness, the library's announcement and the
\* fallback timer are ordered, initializeSystem runs at most once: the code
\* input has one 'input' handler and the form one 'submit' handler once it
\* has run.
C39_InitializedOnce ==
    /\ boot.runs <= 1
    /\ boot.runs = 1 => boot.inputHandlers = 1 /\ boot.submitHandlers = 1

\* C40: setSelectValue called with a list of values ends without raising: it
\* has selected an option that matches or has taken the mismatch branch,
\* whose message shows the values joined.
C40_ListValue ==
    MatcherCalled /\ lastOp.target.arr =>
        /\ ~lastOp.result.threw
        /\ lastOp.result.returned \/ lastOp.result.mismatch

====
